---- MODULE Spec2Model ----
(***************************************************************************)
(* Experiment execution and resource estimation of the quantum lab         *)
(* backend: QuantumModuleManager (quantum/manager.py) and the engines it   *)
(* dispatches to (mock_adapter.py, antimatter.py, qiskit_adapter.py).      *)
(*                                                                         *)
(* Representation.                                                         *)
(*  - A Python str is a sequence of fragments.  Strings whose characters   *)
(*    the code inspects (system ids, algorithm and ansatz identifiers) are *)
(*    written one character per fragment; string literals that are only    *)
(*    compared for equality or interpolated are a single fragment.         *)
(*  - A Python dict is a TLA+ record; key presence is DOMAIN membership.   *)
(*  - Energies are integers in units of 1e-5 Hartree, runtimes and clock   *)
(*    readings in units of 0.01 s, estimator quantities in units of 0.001. *)
(*  - A call that raises is an outcome with status "raise"; a call that    *)
(*    returns is an outcome with status "return".                          *)
(*                                                                         *)
(* State.  USING_MOCK, SYSTEMS and reference_energies are the module and   *)
(* adapter state; pc, call, result, raised and log describe the manager    *)
(* call in progress; memo is an estimate a caller has kept from an earlier *)
(* call; requests and results are the run requests received by the HTTP    *)
(* host (main.py) and the rows of its ExperimentResult table.              *)
(***************************************************************************)
EXTENDS Integers, Sequences, FiniteSets, TLC

VARIABLES USING_MOCK, SYSTEMS, reference_energies, pc, call, result, raised, log,
          memo, requests, results

vars == <<USING_MOCK, SYSTEMS, reference_energies, pc, call, result, raised, log,
          memo, requests, results>>

(***************************************************************************)
(* Bounds of the model.                                                    *)
(***************************************************************************)
\* time.time() readings range over 0..MaxClock
MaxClock == 1
\* every random draw is one of the MaxDraw + 1 evenly spaced points of its range
MaxDraw == 1
\* the run requests the host receives
MaxRequests == 2

(***************************************************************************)
(* str methods used by the code.                                           *)
(***************************************************************************)
UpperLetters ==
    <<"A","B","C","D","E","F","G","H","I","J","K","L","M",
      "N","O","P","Q","R","S","T","U","V","W","X","Y","Z">>

LowerLetters ==
    <<"a","b","c","d","e","f","g","h","i","j","k","l","m",
      "n","o","p","q","r","s","t","u","v","w","x","y","z">>

MapChar(c, from, to) ==
    IF \E k \in DOMAIN from : from[k] = c
    THEN to[CHOOSE k \in DOMAIN from : from[k] = c]
    ELSE c

lower(s) == [i \in 1..Len(s) |-> MapChar(s[i], UpperLetters, LowerLetters)]

upper(s) == [i \in 1..Len(s) |-> MapChar(s[i], LowerLetters, UpperLetters)]

startswith(s, prefix) ==
    /\ Len(s) >= Len(prefix)
    /\ SubSeq(s, 1, Len(prefix)) = prefix

\* the `in` operator on two strings (contiguous occurrence)
Contains(s, sub) ==
    \E i \in 0..(Len(s) - Len(sub)) : SubSeq(s, i + 1, i + Len(sub)) = sub

(***************************************************************************)
(* String literals.                                                        *)
(***************************************************************************)
ANTI_PREFIX == <<"a","n","t","i","_">>
ANTI_H == <<"a","n","t","i","_","H">>
ANTI_PS == <<"a","n","t","i","_","P","s">>

STO3G == <<"sto-3g">>
B321G == <<"3-21g">>
B631G == <<"6-31g">>
CCPVDZ == <<"cc-pvdz">>
CCPVTZ == <<"cc-pvtz">>

GROUND == <<"ground">>
EXCITED == <<"excited">>
GEOMETRY == <<"geometry">>
VIBRATIONAL == <<"vibrational">>
DIPOLE == <<"dipole">>

GROUND_STATE == <<"ground_state">>
EXCITED_STATE == <<"excited_state">>
GEOMETRY_OPTIMIZATION == <<"geometry_optimization">>
VIBRATIONAL_ANALYSIS == <<"vibrational_analysis">>
DIPOLE_MOMENT == <<"dipole_moment">>

VQE == <<"V","Q","E">>
QAOA == <<"Q","A","O","A">>
QPE == <<"Q","P","E">>
UCCSD == <<"U","C","C","S","D">>
HWE == <<"H","W","E">>
TWOLOCAL == <<"T","w","o","L","o","c","a","l">>
EXACT == <<"e","x","a","c","t">>

JW == <<"JW">>
PARITY == <<"Parity">>
BK == <<"BK">>

(***************************************************************************)
(* Values of a configuration mapping.  A value is a str, an int, None, a   *)
(* list (unhashable), or absent (the key is not in the mapping).           *)
(***************************************************************************)
Str(s) == [type |-> "str", chars |-> s, n |-> 0]
IntVal(k) == [type |-> "int", chars |-> <<>>, n |-> k]
NoneVal == [type |-> "none", chars |-> <<>>, n |-> 0]
ListVal == [type |-> "list", chars |-> <<>>, n |-> 0]
Absent == [type |-> "absent", chars |-> <<>>, n |-> 0]

ConfigKeys == {"algorithm", "ansatz", "mapper", "basis_set", "experiment_type", "num_states"}

Config(alg, ans, map, bs, et, ns) ==
    [algorithm |-> alg, ansatz |-> ans, mapper |-> map,
     basis_set |-> bs, experiment_type |-> et, num_states |-> ns]

\* a configuration mapping that also has the key extra
WithKey(configuration, extra, value) ==
    [key \in ConfigKeys \cup {extra} |-> IF key = extra THEN value ELSE configuration[key]]

\* key in configuration
Has(configuration, key) == configuration[key].type # "absent"

\* configuration.get(key, default)
Get(configuration, key, default) ==
    IF Has(configuration, key) THEN configuration[key] ELSE default

\* hash(value) succeeds
Hashable(v) == v.type # "list"

\* str(value), as interpolated by an f-string
StrOf(v) ==
    CASE v.type = "str" -> v.chars
      [] v.type = "int" -> <<ToString(v.n)>>
      [] v.type = "none" -> <<"None">>
      [] OTHER -> <<"[]">>

(***************************************************************************)
(* Outcomes of a call.                                                     *)
(***************************************************************************)
NoDict == [none |-> TRUE]

Return(value, computations) ==
    [status |-> "return", value |-> value, exc |-> "", msg |-> <<>>, log |-> computations]

Raise(exc, msg, computations) ==
    [status |-> "raise", value |-> NoDict, exc |-> exc, msg |-> msg, log |-> computations]

\* random.uniform(lo, hi) / random.randint(lo, hi): the i-th of the evenly
\* spaced sample points of lo..hi
Pick(lo, hi, i) == lo + ((hi - lo) * i) \div MaxDraw

\* what the chemistry libraries do in a call: they are consulted only when
\* their import succeeded (USING_MOCK is False)
LibOutcomes(using_mock) ==
    IF using_mock THEN {"not imported"} ELSE {"ok", "driver_error", "solver_error"}

Draws(using_mock) ==
    [a : 0..MaxDraw, b : 0..MaxDraw, t0 : 0..MaxClock, t1 : 0..MaxClock,
     lib : LibOutcomes(using_mock)]

(***************************************************************************)
(* antimatter.py                                                           *)
(***************************************************************************)
\* eV (in tenths) to Hartree (in 1e-5): value / 27.211386
EvToHartree(ev10) == -((-ev10 * 10000000) \div 27211)

\* simulate_positronium with the reference energy of hydrogen
simulate_positronium_HydrogenReference(configuration, rnd) ==
    LET energy_hartree == EvToHartree(-136)
        reference_energy == -50000
    IN  Return([energy |-> energy_hartree,
                reference_energy |-> reference_energy,
                iterations |-> Pick(50, 149, rnd.a),
                runtime |-> rnd.t1 - rnd.t0,
                convergence |-> IF energy_hartree >= reference_energy
                                THEN energy_hartree - reference_energy
                                ELSE reference_energy - energy_hartree,
                data |-> [reduced_mass |-> 5,
                          principal_quantum_number |-> 1,
                          binding_energy_ev |-> -136,
                          annihilation_rate |-> 799,
                          lifetime |-> 125,
                          system_type |-> <<"para-positronium">>]],
               <<"simulate_positronium">>)

simulate_positronium(configuration, rnd) ==
    LET binding_energy == -136
        energy_hartree == EvToHartree(binding_energy)
        reference_energy == -25000
        iterations == Pick(50, 149, rnd.a)
        convergence == IF energy_hartree >= reference_energy
                       THEN energy_hartree - reference_energy
                       ELSE reference_energy - energy_hartree
        data == [reduced_mass |-> 5,
                 principal_quantum_number |-> 1,
                 binding_energy_ev |-> binding_energy,
                 annihilation_rate |-> 799,
                 lifetime |-> 125,
                 system_type |-> <<"para-positronium">>]
    IN  Return([energy |-> energy_hartree,
                reference_energy |-> reference_energy,
                iterations |-> iterations,
                runtime |-> rnd.t1 - rnd.t0,
                convergence |-> convergence,
                data |-> data],
               <<"simulate_positronium">>)

\* simulate_antihydrogen taking the convergence before the CPT term is added
simulate_antihydrogen_EarlyConvergence(configuration, rnd) ==
    LET energy_ev == -136
        cpt_violation == Pick(-1, 1, rnd.b)
        energy_hartree == EvToHartree(energy_ev)
        reference_energy == -50000
    IN  Return([energy |-> energy_hartree + cpt_violation,
                reference_energy |-> reference_energy,
                iterations |-> Pick(30, 99, rnd.a),
                runtime |-> rnd.t1 - rnd.t0,
                convergence |-> IF energy_hartree >= reference_energy
                                THEN energy_hartree - reference_energy
                                ELSE reference_energy - energy_hartree,
                data |-> [principal_quantum_number |-> 1,
                          cpt_violation |-> cpt_violation,
                          gravity_effect |-> <<"not calculated">>,
                          binding_energy_ev |-> energy_ev,
                          system_type |-> <<"antihydrogen">>]],
               <<"simulate_antihydrogen">>)

simulate_antihydrogen(configuration, rnd) ==
    LET energy_ev == -136
        cpt_violation == Pick(-1, 1, rnd.b)
        energy_hartree == EvToHartree(energy_ev) + cpt_violation
        reference_energy == -50000
        iterations == Pick(30, 99, rnd.a)
        convergence == IF energy_hartree >= reference_energy
                       THEN energy_hartree - reference_energy
                       ELSE reference_energy - energy_hartree
        data == [principal_quantum_number |-> 1,
                 cpt_violation |-> cpt_violation,
                 gravity_effect |-> <<"not calculated">>,
                 binding_energy_ev |-> energy_ev,
                 system_type |-> <<"antihydrogen">>]
    IN  Return([energy |-> energy_hartree,
                reference_energy |-> reference_energy,
                iterations |-> iterations,
                runtime |-> rnd.t1 - rnd.t0,
                convergence |-> convergence,
                data |-> data],
               <<"simulate_antihydrogen">>)

(***************************************************************************)
(* mock_adapter.py: the catalog and the reference table.                   *)
(***************************************************************************)
Atom(symbol, x, y, z) == [symbol |-> symbol, x |-> x, y |-> y, z |-> z]

\* MockQuantumAdapter.SYSTEMS (coordinates in 0.001)
InitialSystems ==
    << [id |-> <<"h","2","o">>, name |-> <<"Water">>,
        atoms |-> <<Atom("O", 0, 0, 0), Atom("H", 0, 757, 587), Atom("H", 0, -757, 587)>>,
        charge |-> 0, multiplicity |-> 1],
       [id |-> <<"c","h","4">>, name |-> <<"Methane">>,
        atoms |-> <<Atom("C", 0, 0, 0), Atom("H", 626, 626, 626), Atom("H", -626, -626, 626),
                    Atom("H", -626, 626, -626), Atom("H", 626, -626, -626)>>,
        charge |-> 0, multiplicity |-> 1],
       [id |-> <<"n","h","3">>, name |-> <<"Ammonia">>,
        atoms |-> <<Atom("N", 0, 0, 0), Atom("H", 0, -934, -374), Atom("H", 809, 467, -374),
                    Atom("H", -809, 467, -374)>>,
        charge |-> 0, multiplicity |-> 1],
       [id |-> <<"c","o","2">>, name |-> <<"Carbon Dioxide">>,
        atoms |-> <<Atom("C", 0, 0, 0), Atom("O", 0, 0, 1160), Atom("O", 0, 0, -1160)>>,
        charge |-> 0, multiplicity |-> 1] >>

\* self.reference_energies: rows in the order of SYSTEMS, columns in the
\* order sto-3g, 3-21g, 6-31g, cc-pvdz, cc-pvtz
InitialReferenceEnergies ==
    << [id |-> <<"h","2","o">>, row |-> <<-7496300, -7558500, -7601000, -7624100, -7633200>>],
       [id |-> <<"c","h","4">>, row |-> <<-3972600, -4019500, -4046200, -4051300, -4053500>>],
       [id |-> <<"n","h","3">>, row |-> <<-5545400, -5598700, -5621500, -5629800, -5639500>>],
       [id |-> <<"c","o","2">>, row |-> <<-18525300, -18656500, -18767500, -18772300, -18796800>>] >>

BasisColumns == <<STO3G, B321G, B631G, CCPVDZ, CCPVTZ>>

\* self.reference_energies.get(system_id, {}).get(basis_set): <<>> is None
LookupReference(table, system_id, basis_set) ==
    IF /\ \E r \in DOMAIN table : table[r].id = system_id
       /\ \E k \in DOMAIN BasisColumns : BasisColumns[k] = basis_set
    THEN <<table[CHOOSE r \in DOMAIN table : table[r].id = system_id]
                .row[CHOOSE k \in DOMAIN BasisColumns : BasisColumns[k] = basis_set]>>
    ELSE <<>>

\* FindSystem comparing the ids as written
FindSystem_CaseSensitive(systems, system_id) ==
    LET hits == {i \in DOMAIN systems : systems[i].id = system_id}
    IN  IF hits = {} THEN <<>>
        ELSE <<systems[CHOOSE i \in hits : \A j \in hits : i <= j]>>

\* for system in SYSTEMS: if system["id"].lower() == system_id.lower(): ... break
\* (the first match; <<>> when the loop ends without a match)
FindSystem(systems, system_id) ==
    LET hits == {i \in DOMAIN systems : lower(systems[i].id) = lower(system_id)}
    IN  IF hits = {} THEN <<>>
        ELSE <<systems[CHOOSE i \in hits : \A j \in hits : i <= j]>>

(***************************************************************************)
(* mock_adapter.py: the five computations.  Draw a perturbs energies, draw *)
(* b picks counts and synthesized references; payload values use both.     *)
(***************************************************************************)
\* basis_factors.get(basis_set, 1.0) of _calculate_runtime
RuntimeBasisFactor(basis_set) ==
    CASE basis_set = STO3G -> 1
      [] basis_set = B321G -> 2
      [] basis_set = B631G -> 3
      [] basis_set = CCPVDZ -> 5
      [] basis_set = CCPVTZ -> 10
      [] OTHER -> 1

\* num_atoms**2 * basis_factor * factor * (0.8 + uniform(0, 0.4)), factor in tenths
_calculate_runtime(molecule_data, basis_set, factor10, rnd) ==
    Len(molecule_data.atoms) * Len(molecule_data.atoms)
        * RuntimeBasisFactor(basis_set) * factor10 * (8 + Pick(0, 4, rnd.a))

\* the reference energy of ground state and geometry optimization: the table
\* entry, or -50 - 10 * atoms + uniform(-0.5, 0.5) when the table has none
ReferenceEnergy(table, molecule_data, basis_set, rnd) ==
    LET found == LookupReference(table, molecule_data.id, basis_set)
    IN  IF found # <<>> THEN found[1]
        ELSE -5000000 - Len(molecule_data.atoms) * 1000000 + Pick(-50000, 50000, rnd.b)

Symmetries == <<"A1", "A2", "B1", "B2">>

run_ground_state_calculation(table, molecule_data, basis_set, kwargs, rnd) ==
    LET reference_energy == ReferenceEnergy(table, molecule_data, basis_set, rnd)
        energy == reference_energy + Pick(-100, 100, rnd.a)
        num_orbitals == Len(molecule_data.atoms) * 2
        orbitals == [k \in 1..num_orbitals |->
                        [index |-> k - 1,
                         energy |-> -1000000 + (k - 1) * 50000 + Pick(-1000, 1000, rnd.b),
                         occupation |-> IF k - 1 < num_orbitals \div 2 THEN 2 ELSE 0,
                         symmetry |-> Symmetries[1 + ((rnd.a + rnd.b) % 4)]]]
    IN  Return([energy |-> energy,
                reference_energy |-> reference_energy,
                iterations |-> Pick(10, 30, rnd.b),
                runtime |-> _calculate_runtime(molecule_data, basis_set, 10, rnd),
                orbitals |-> orbitals,
                converged |-> TRUE,
                dipole_moment |-> <<Pick(-50000, 50000, rnd.b), Pick(-50000, 50000, rnd.a),
                                    Pick(-50000, 50000, rnd.b)>>,
                method |-> <<"RHF">>,
                basis_set |-> basis_set,
                timestamp |-> rnd.t1],
               <<"run_ground_state_calculation">>)

\* ExcitationEnergy counting the levels from 0
ExcitationEnergy_ZeroBased(k, rnd) ==
    (k - 1) * 10000 + Pick(-2000, 2000, IF k % 2 = 1 THEN rnd.a ELSE rnd.b)

\* excitation_energy = (i + 1) * 0.1 + random.uniform(-0.02, 0.02) of level
\* k = i + 1.  Every level draws its own noise: odd levels take draw a and even
\* levels draw b.
ExcitationEnergy(k, rnd) ==
    k * 10000 + Pick(-2000, 2000, IF k % 2 = 1 THEN rnd.a ELSE rnd.b)

\* run_excited_state_calculation after its ground-state calculation
ExcitedStateResult(ground, molecule_data, basis_set, kwargs, rnd) ==
    LET ground_state == ground.value
        num_states == Get(kwargs, "num_states", IntVal(3))
        computations == <<"run_excited_state_calculation">> \o ground.log
        excited_states ==
            [k \in 1..num_states.n |->
                LET excitation_energy == ExcitationEnergy(k, rnd)
                IN  [state |-> k,
                     excitation_energy_ev |-> (excitation_energy * 2721) \div 100,
                     excitation_energy |-> excitation_energy,
                     total_energy |-> ground_state.energy + excitation_energy,
                     oscillator_strength |-> Pick(1, 100, rnd.b),
                     description |-> <<"HOMO->", ToString(k - 1)>>]]
    IN  IF num_states.type # "int"
        THEN Raise("TypeError", <<"object cannot be interpreted as an integer">>, computations)
        ELSE Return([energy |-> ground_state.energy,
                     reference_energy |-> ground_state.reference_energy,
                     iterations |-> Pick(15, 45, rnd.b),
                     runtime |-> _calculate_runtime(molecule_data, basis_set, 15, rnd),
                     excited_states |-> excited_states,
                     ground_state_data |-> ground_state,
                     method |-> <<"TD-RHF">>,
                     basis_set |-> basis_set,
                     timestamp |-> rnd.t1],
                    computations)

run_excited_state_calculation(table, molecule_data, basis_set, kwargs, rnd) ==
    ExcitedStateResult(run_ground_state_calculation(table, molecule_data, basis_set, kwargs, rnd),
                       molecule_data, basis_set, kwargs, rnd)

\* the trajectory loop: step k of num_steps moves current_energy towards energy.
\* Every step draws its own noise: odd steps take draw a and even steps draw b.
RECURSIVE OptimizationSteps(_, _, _, _, _)
OptimizationSteps(k, num_steps, current_energy, energy, rnd) ==
    IF k > num_steps THEN <<>>
    ELSE LET step_energy == current_energy
                            - ((current_energy - energy) * k) \div num_steps
                            + Pick(-100, 100, IF k % 2 = 1 THEN rnd.a ELSE rnd.b)
             rms_gradient == (10000 * (num_steps - (k - 1))) \div num_steps
                             + Pick(-500, 500, rnd.a)
         IN  <<[step |-> k,
                energy |-> step_energy,
                rms_gradient |-> rms_gradient,
                max_force |-> rms_gradient * 2 + Pick(-1000, 1000, rnd.b)]>>
             \o OptimizationSteps(k + 1, num_steps, step_energy, energy, rnd)

run_geometry_optimization(table, molecule_data, basis_set, kwargs, rnd) ==
    LET reference_energy == ReferenceEnergy(table, molecule_data, basis_set, rnd)
        energy == reference_energy + Pick(-100, 100, rnd.a)
        optimized_atoms ==
            [k \in 1..Len(molecule_data.atoms) |->
                [symbol |-> molecule_data.atoms[k].symbol,
                 x |-> molecule_data.atoms[k].x + Pick(-20, 20, rnd.b),
                 y |-> molecule_data.atoms[k].y + Pick(-20, 20, rnd.a),
                 z |-> molecule_data.atoms[k].z + Pick(-20, 20, rnd.b)]]
        num_steps == Pick(5, 15, rnd.b)
        current_energy == energy + Pick(10000, 30000, rnd.b)
    IN  Return([energy |-> energy,
                reference_energy |-> reference_energy,
                iterations |-> Pick(20, 50, rnd.b),
                runtime |-> _calculate_runtime(molecule_data, basis_set, 20, rnd),
                optimized_geometry |-> [atoms |-> optimized_atoms,
                                        charge |-> molecule_data.charge,
                                        multiplicity |-> molecule_data.multiplicity],
                optimization_steps |->
                    OptimizationSteps(1, num_steps, current_energy, energy, rnd),
                converged |-> TRUE,
                method |-> <<"RHF">>,
                basis_set |-> basis_set,
                timestamp |-> rnd.t1],
               <<"run_geometry_optimization">>)

RECURSIVE SumNonNegative(_, _)
\* sum(max(0, v["frequency"]) for v in vibrations[k..])
SumNonNegative(vibrations, k) ==
    IF k > Len(vibrations) THEN 0
    ELSE (IF vibrations[k].frequency > 0 THEN vibrations[k].frequency ELSE 0)
         + SumNonNegative(vibrations, k + 1)

\* NumModes counting the modes of a linear molecule
NumModes_Linear(num_atoms) == 3 * num_atoms - 5

\* num_modes = 3 * num_atoms - 6
NumModes(num_atoms) == 3 * num_atoms - 6

\* run_vibrational_analysis after its geometry optimization
VibrationalResult(opt, molecule_data, basis_set, kwargs, rnd) ==
    LET opt_result == opt.value
        num_atoms == Len(molecule_data.atoms)
        num_modes == NumModes(num_atoms)
        vibrations ==
            [k \in 1..num_modes |->
                [mode |-> k,
                 frequency |-> k * 100 + Pick(-50, 50, rnd.a),
                 intensity |-> Pick(0, 100, rnd.a),
                 reduced_mass |-> Pick(10, 50, rnd.b),
                 force_constant |-> Pick(1, 5, rnd.b),
                 displacements |->
                    [j \in 1..num_atoms |->
                        [atom |-> j - 1,
                         dx |-> Pick(-10, 10, rnd.a),
                         dy |-> Pick(-10, 10, rnd.b),
                         dz |-> Pick(-10, 10, rnd.a)]]]]
    IN  Return([energy |-> opt_result.energy,
                reference_energy |-> opt_result.reference_energy,
                iterations |-> Pick(30, 70, rnd.b),
                runtime |-> _calculate_runtime(molecule_data, basis_set, 25, rnd),
                optimized_geometry |-> opt_result.optimized_geometry,
                vibrations |-> vibrations,
                zero_point_energy |-> (SumNonNegative(vibrations, 1) * 50000) \div 4184,
                method |-> <<"RHF">>,
                basis_set |-> basis_set,
                timestamp |-> rnd.t1],
               <<"run_vibrational_analysis">> \o opt.log)

run_vibrational_analysis(table, molecule_data, basis_set, kwargs, rnd) ==
    VibrationalResult(run_geometry_optimization(table, molecule_data, basis_set, kwargs, rnd),
                      molecule_data, basis_set, kwargs, rnd)

\* (dx**2 + dy**2 + dz**2)**0.5, rounded down
Norm(dx, dy, dz) ==
    CHOOSE r \in 0..400 :
        /\ r * r <= dx * dx + dy * dy + dz * dz
        /\ (r + 1) * (r + 1) > dx * dx + dy * dy + dz * dz

\* DipoleResult drawing its own energy noise on top of the ground state's
DipoleResult_OwnEnergy(ground, molecule_data, basis_set, kwargs, rnd) ==
    LET ground_state == ground.value
        dx == Pick(-200, 200, rnd.b)
        dy == Pick(-200, 200, rnd.a)
        dz == Pick(-200, 200, rnd.b)
    IN  Return([energy |-> ground_state.energy + Pick(-100, 100, rnd.a),
                reference_energy |-> ground_state.reference_energy,
                iterations |-> ground_state.iterations,
                runtime |-> _calculate_runtime(molecule_data, basis_set, 5, rnd),
                dipole_moment |-> [x |-> dx, y |-> dy, z |-> dz, total |-> Norm(dx, dy, dz)],
                method |-> <<"RHF">>,
                basis_set |-> basis_set,
                timestamp |-> rnd.t1],
               <<"run_dipole_moment">> \o ground.log)

\* run_dipole_moment after its ground-state calculation
DipoleResult(ground, molecule_data, basis_set, kwargs, rnd) ==
    LET ground_state == ground.value
        dx == Pick(-200, 200, rnd.b)
        dy == Pick(-200, 200, rnd.a)
        dz == Pick(-200, 200, rnd.b)
    IN  Return([energy |-> ground_state.energy,
                reference_energy |-> ground_state.reference_energy,
                iterations |-> ground_state.iterations,
                runtime |-> _calculate_runtime(molecule_data, basis_set, 5, rnd),
                dipole_moment |-> [x |-> dx, y |-> dy, z |-> dz, total |-> Norm(dx, dy, dz)],
                method |-> <<"RHF">>,
                basis_set |-> basis_set,
                timestamp |-> rnd.t1],
               <<"run_dipole_moment">> \o ground.log)

run_dipole_moment(table, molecule_data, basis_set, kwargs, rnd) ==
    DipoleResult(run_ground_state_calculation(table, molecule_data, basis_set, kwargs, rnd),
                 molecule_data, basis_set, kwargs, rnd)

\* MockQuantumAdapter.run_experiment: the case selection on the kind
MockRunExperiment(table, experiment_type, molecule_data, basis_set, kwargs, rnd) ==
    CASE experiment_type = GROUND_STATE ->
            run_ground_state_calculation(table, molecule_data, basis_set, kwargs, rnd)
      [] experiment_type = EXCITED_STATE ->
            run_excited_state_calculation(table, molecule_data, basis_set, kwargs, rnd)
      [] experiment_type = GEOMETRY_OPTIMIZATION ->
            run_geometry_optimization(table, molecule_data, basis_set, kwargs, rnd)
      [] experiment_type = VIBRATIONAL_ANALYSIS ->
            run_vibrational_analysis(table, molecule_data, basis_set, kwargs, rnd)
      [] experiment_type = DIPOLE_MOMENT ->
            run_dipole_moment(table, molecule_data, basis_set, kwargs, rnd)
      [] OTHER ->
            Raise("ValueError", <<"Unknown experiment type: ">> \o experiment_type, <<>>)

(***************************************************************************)
(* mock_adapter.py: the classical resource estimate.                       *)
(***************************************************************************)
_get_num_electrons(element) ==
    LET elements == <<"H", "He", "Li", "Be", "B", "C", "N", "O", "F", "Ne",
                      "Na", "Mg", "Al", "Si", "P", "S", "Cl", "Ar">>
    IN  IF \E k \in DOMAIN elements : elements[k] = element
        THEN CHOOSE k \in DOMAIN elements : elements[k] = element
        ELSE 6

RECURSIVE SumElectrons(_, _)
\* sum(self._get_num_electrons(atom["symbol"]) for atom in atoms[k..])
SumElectrons(atoms, k) ==
    IF k > Len(atoms) THEN 0
    ELSE _get_num_electrons(atoms[k].symbol) + SumElectrons(atoms, k + 1)

\* EstimateBasisFactor reading the basis factors of _calculate_runtime
EstimateBasisFactor_RuntimeTable(basis_set) ==
    CASE basis_set = Str(STO3G) -> 1
      [] basis_set = Str(B321G) -> 2
      [] basis_set = Str(B631G) -> 3
      [] basis_set = Str(CCPVDZ) -> 5
      [] basis_set = Str(CCPVTZ) -> 10
      [] OTHER -> 1

\* basis_factors.get(basis_set, 1.0) of estimate_resources
EstimateBasisFactor(basis_set) ==
    CASE basis_set = Str(STO3G) -> 1
      [] basis_set = Str(B321G) -> 2
      [] basis_set = Str(B631G) -> 3
      [] basis_set = Str(CCPVDZ) -> 4
      [] basis_set = Str(CCPVTZ) -> 8
      [] OTHER -> 1

\* EstimateExperimentFactor translating the public ids to the kind names first
EstimateExperimentFactor_Translated(experiment_type) ==
    CASE experiment_type \in {Str(GROUND_STATE), Str(GROUND)} -> 10
      [] experiment_type \in {Str(EXCITED_STATE), Str(EXCITED)} -> 25
      [] experiment_type \in {Str(GEOMETRY_OPTIMIZATION), Str(GEOMETRY)} -> 30
      [] experiment_type \in {Str(VIBRATIONAL_ANALYSIS), Str(VIBRATIONAL)} -> 50
      [] experiment_type \in {Str(DIPOLE_MOMENT), Str(DIPOLE)} -> 12
      [] OTHER -> 10

\* experiment_factors.get(experiment_type, 1.0), in tenths
EstimateExperimentFactor(experiment_type) ==
    CASE experiment_type = Str(GROUND_STATE) -> 10
      [] experiment_type = Str(EXCITED_STATE) -> 25
      [] experiment_type = Str(GEOMETRY_OPTIMIZATION) -> 30
      [] experiment_type = Str(VIBRATIONAL_ANALYSIS) -> 50
      [] experiment_type = Str(DIPOLE_MOMENT) -> 12
      [] OTHER -> 10

\* _format_time without the band of hours
_format_time_NoHours(ms) ==
    IF ms < 60000 THEN [value |-> (ms + 50) \div 100, unit |-> "seconds"]
    ELSE IF ms < 86400000 THEN [value |-> (ms + 3000) \div 6000, unit |-> "minutes"]
    ELSE [value |-> (ms + 4320000) \div 8640000, unit |-> "days"]

\* seconds (given in 0.001 s) to [value in tenths of the unit, unit]
_format_time(ms) ==
    IF ms < 60000 THEN [value |-> (ms + 50) \div 100, unit |-> "seconds"]
    ELSE IF ms < 3600000 THEN [value |-> (ms + 3000) \div 6000, unit |-> "minutes"]
    ELSE IF ms < 86400000 THEN [value |-> (ms + 180000) \div 360000, unit |-> "hours"]
    ELSE [value |-> (ms + 4320000) \div 8640000, unit |-> "days"]

\* round(x, 2) of a value given in 0.001: the result is in 0.01
Round2(milli) == (milli + 5) \div 10

\* MockQuantumAdapter.estimate_resources
MockEstimateResources(molecule_data, basis_set, experiment_type) ==
    LET num_atoms == Len(molecule_data.atoms)
        num_electrons == SumElectrons(molecule_data.atoms, 1)
        basis_factor == EstimateBasisFactor(basis_set)
        experiment_factor == EstimateExperimentFactor(experiment_type)
        memory_mb == num_electrons * num_electrons * basis_factor * experiment_factor * 10
        disk_mb == memory_mb * 5
        cpu_hours == num_electrons * num_electrons * basis_factor * experiment_factor
        runtime_sec == cpu_hours * 450
    IN  IF ~Hashable(basis_set) \/ ~Hashable(experiment_type)
        THEN Raise("TypeError", <<"unhashable type: 'list'">>, <<>>)
        ELSE Return([memory_mb |-> Round2(memory_mb),
                     disk_mb |-> Round2(disk_mb),
                     cpu_hours |-> Round2(cpu_hours),
                     estimated_runtime_sec |-> Round2(runtime_sec),
                     estimated_runtime_human |-> _format_time(runtime_sec),
                     basis_set_complexity |-> basis_factor,
                     experiment_complexity |-> experiment_factor,
                     molecule_size |-> [atoms |-> num_atoms, electrons |-> num_electrons]],
                    <<>>)

(***************************************************************************)
(* qiskit_adapter.py.  The chemistry libraries are external: lib says      *)
(* whether the driver or the eigensolver fails, draw b gives the exact     *)
(* eigenvalue, draw a the distance of the variational result from it.      *)
(***************************************************************************)
\* RealMolecules holding the lower-case id of water as well
RealMolecules_WithCatalogId ==
    { <<"H","2">>, <<"L","i","H">>, <<"H","2","O">>, <<"H">>, <<"H","e">>, <<"L","i">>,
      <<"h","2","o">> }

RealMolecules == { <<"H","2">>, <<"L","i","H">>, <<"H","2","O">>, <<"H">>, <<"H","e">>,
                   <<"L","i">> }

Mappers == {Str(JW), Str(PARITY), Str(BK)}

\* the body of the try block of calculate_ground_state
GroundStateBody(system_id, basis_set, configuration, rnd) ==
    LET reference_energy == Pick(-120000, -100000, rnd.b)
        vqe_energy == reference_energy + Pick(-10, 10, rnd.a)
        vqe_convergence == IF vqe_energy >= reference_energy
                           THEN vqe_energy - reference_energy
                           ELSE reference_energy - vqe_energy
        computations == <<"calculate_ground_state">>
    IN  IF system_id \notin RealMolecules
        THEN Raise("ValueError", <<"Unknown system: ">> \o system_id, computations)
        ELSE IF rnd.lib = "driver_error"
        THEN Raise("QiskitNatureError", <<"driver failed">>, computations)
        ELSE IF ~Has(configuration, "mapper")
        THEN Raise("KeyError", <<"'mapper'">>, computations)
        ELSE IF ~Hashable(configuration.mapper)
        THEN Raise("TypeError", <<"unhashable type: 'list'">>, computations)
        ELSE IF configuration.mapper \notin Mappers
        THEN Raise("ValueError", <<"Unknown mapper: ">> \o StrOf(configuration.mapper),
                   computations)
        ELSE IF rnd.lib = "solver_error"
        THEN Raise("AlgorithmError", <<"eigensolver failed">>, computations)
        ELSE IF ~Has(configuration, "algorithm")
        THEN Raise("KeyError", <<"'algorithm'">>, computations)
        ELSE IF configuration.algorithm = Str(VQE)
        THEN IF ~Has(configuration, "ansatz")
             THEN Raise("KeyError", <<"'ansatz'">>, computations)
             ELSE Return([energy |-> vqe_energy,
                          reference_energy |-> reference_energy,
                          iterations |-> Pick(1, 100, rnd.b),
                          runtime |-> rnd.t1 - rnd.t0,
                          convergence |-> vqe_convergence,
                          data |-> [optimizer_history |-> <<vqe_energy>>,
                                    optimal_parameters |-> <<rnd.a>>,
                                    optimal_circuit |-> <<"TwoLocal">>]],
                         computations)
        ELSE Return([energy |-> reference_energy,
                     reference_energy |-> reference_energy,
                     iterations |-> 1,
                     runtime |-> rnd.t1 - rnd.t0,
                     convergence |-> 0,
                     data |-> [message |-> <<"Exact calculation using NumPy eigensolver">>]],
                    computations)

\* except Exception as e of calculate_ground_state: every exception of the
\* body becomes an error dict
ErrorResult(body, rnd) ==
    IF body.status = "return" THEN body
    ELSE Return([error |-> <<"Error in quantum calculation: ">> \o body.msg,
                 error_details |-> <<"Traceback (most recent call last)", body.exc>>,
                 runtime |-> rnd.t1 - rnd.t0],
                body.log)

calculate_ground_state(system_id, basis_set, configuration, rnd) ==
    ErrorResult(GroundStateBody(system_id, basis_set, configuration, rnd), rnd)

(***************************************************************************)
(* manager.py: QuantumModuleManager.run_experiment                         *)
(***************************************************************************)
EmptyDict == [k \in {} |-> k]

\* d[key] = value
SetKey(d, key, value) == [k \in DOMAIN d \cup {key} |-> IF k = key THEN value ELSE d[k]]

\* ExperimentMap with the entries of geometry and vibrational exchanged
ExperimentMap_Exchanged(experiment_type) ==
    CASE experiment_type = GROUND -> GROUND_STATE
      [] experiment_type = EXCITED -> EXCITED_STATE
      [] experiment_type = GEOMETRY -> VIBRATIONAL_ANALYSIS
      [] experiment_type = VIBRATIONAL -> GEOMETRY_OPTIMIZATION
      [] experiment_type = DIPOLE -> DIPOLE_MOMENT
      [] OTHER -> experiment_type

\* experiment_map.get(experiment_type, experiment_type)
ExperimentMap(experiment_type) ==
    CASE experiment_type = GROUND -> GROUND_STATE
      [] experiment_type = EXCITED -> EXCITED_STATE
      [] experiment_type = GEOMETRY -> GEOMETRY_OPTIMIZATION
      [] experiment_type = VIBRATIONAL -> VIBRATIONAL_ANALYSIS
      [] experiment_type = DIPOLE -> DIPOLE_MOMENT
      [] OTHER -> experiment_type

\* the parameters of MockQuantumAdapter.run_experiment that the call fills
\* positionally: a key of **configuration with one of these names is a TypeError
\* PositionalNames of an engine call that takes all three as keywords
PositionalNames_None == {}

PositionalNames == {"experiment_type", "molecule_data", "basis_set"}

\* the top-level keys under which the mock engine returns what a kind computes
PayloadKeys ==
    {"orbitals", "excited_states", "ground_state_data", "optimization_steps",
     "optimized_geometry", "vibrations", "dipole_moment"}

\* EnsureData without the backfill
EnsureData_Skipped(ran) == ran

\* EnsureData filling data with the payload of the result
EnsureData_Payload(ran) ==
    IF ran.status = "raise" \/ "data" \in DOMAIN ran.value THEN ran
    ELSE Return(SetKey(ran.value, "data",
                       [key \in DOMAIN ran.value \cap PayloadKeys |-> ran.value[key]]),
                ran.log)

\* if "data" not in result: result["data"] = {} (skipped when the engine raised)
EnsureData(ran) ==
    IF ran.status = "raise" \/ "data" \in DOMAIN ran.value THEN ran
    ELSE Return(SetKey(ran.value, "data", EmptyDict), ran.log)

AntimatterRoute(system_id, configuration, rnd) ==
    IF system_id = ANTI_H THEN simulate_antihydrogen(configuration, rnd)
    ELSE IF system_id = ANTI_PS THEN simulate_positronium(configuration, rnd)
    ELSE Raise("ValueError", <<"Unsupported antimatter system: ">> \o system_id, <<>>)

MockRoute(systems, table, system_id, basis_set, experiment_type, configuration, rnd) ==
    LET found == FindSystem(systems, system_id)
        mock_experiment_type == ExperimentMap(experiment_type)
    IN  IF found = <<>>
        THEN Raise("ValueError", <<"Unknown system ID: ">> \o system_id, <<>>)
        ELSE IF \E k \in PositionalNames \cap DOMAIN configuration : Has(configuration, k)
        THEN Raise("TypeError", <<"run_experiment() got multiple values for argument">>, <<>>)
        ELSE EnsureData(MockRunExperiment(table, mock_experiment_type, found[1], basis_set,
                                          configuration, rnd))

ExcitedNote == <<"Excited state calculation not yet implemented, showing ground state instead">>

\* result["data"]["message"] = ...: a KeyError when the result has no data
SetExcitedNote(calc) ==
    IF "data" \notin DOMAIN calc.value
    THEN Raise("KeyError", <<"'data'">>, calc.log)
    ELSE Return(SetKey(calc.value, "data", SetKey(calc.value.data, "message", ExcitedNote)),
                calc.log)

\* RealRoute running the ground-state calculation for every experiment type
RealRoute_AnyType(system_id, basis_set, experiment_type, configuration, rnd) ==
    IF experiment_type = EXCITED
    THEN SetExcitedNote(calculate_ground_state(system_id, basis_set, configuration, rnd))
    ELSE calculate_ground_state(system_id, basis_set, configuration, rnd)

RealRoute(system_id, basis_set, experiment_type, configuration, rnd) ==
    IF experiment_type = GROUND
    THEN calculate_ground_state(system_id, basis_set, configuration, rnd)
    ELSE IF experiment_type = EXCITED
    THEN SetExcitedNote(calculate_ground_state(system_id, basis_set, configuration, rnd))
    ELSE Raise("ValueError", <<"Unsupported experiment type: ">> \o experiment_type, <<>>)

\* Dispatch testing the mode before the antimatter prefix
Dispatch_ModeFirst(using_mock, systems, table, system_id, basis_set, experiment_type, configuration, rnd) ==
    IF using_mock
    THEN MockRoute(systems, table, system_id, basis_set, experiment_type, configuration, rnd)
    ELSE IF startswith(system_id, ANTI_PREFIX)
    THEN AntimatterRoute(system_id, configuration, rnd)
    ELSE RealRoute(system_id, basis_set, experiment_type, configuration, rnd)

\* the try block of run_experiment up to the stamping of the result
Dispatch(using_mock, systems, table, system_id, basis_set, experiment_type, configuration, rnd) ==
    IF startswith(system_id, ANTI_PREFIX)
    THEN AntimatterRoute(system_id, configuration, rnd)
    ELSE IF using_mock
    THEN MockRoute(systems, table, system_id, basis_set, experiment_type, configuration, rnd)
    ELSE RealRoute(system_id, basis_set, experiment_type, configuration, rnd)

\* Stamp writing the normalized id and the translated kind
Stamp_Normalized(value, system_id, basis_set, experiment_type) ==
    SetKey(SetKey(SetKey(value, "system_id", lower(system_id)), "basis_set", basis_set),
           "experiment_type", ExperimentMap(experiment_type))

\* result["system_id"] = ...; result["basis_set"] = ...; result["experiment_type"] = ...
Stamp(value, system_id, basis_set, experiment_type) ==
    SetKey(SetKey(SetKey(value, "system_id", system_id), "basis_set", basis_set),
           "experiment_type", experiment_type)

\* except Exception as e: return {"error": str(e), ...}
Failure(msg, system_id, basis_set, experiment_type, rnd) ==
    [error |-> msg,
     system_id |-> system_id,
     basis_set |-> basis_set,
     experiment_type |-> experiment_type,
     runtime |-> rnd.t1 - rnd.t0]

\* Complete without the except clause: the exception leaves run_experiment
Complete_Propagates(body, system_id, basis_set, experiment_type, rnd) ==
    IF body.status = "return"
    THEN Return(Stamp(body.value, system_id, basis_set, experiment_type), body.log)
    ELSE body

\* the end of run_experiment: the result of the try block is stamped and
\* returned, an exception of the try block becomes the error dict
Complete(body, system_id, basis_set, experiment_type, rnd) ==
    IF body.status = "return"
    THEN Return(Stamp(body.value, system_id, basis_set, experiment_type), body.log)
    ELSE Return(Failure(body.msg, system_id, basis_set, experiment_type, rnd), body.log)

run_experiment(using_mock, systems, table, system_id, basis_set, experiment_type, configuration, rnd) ==
    Complete(Dispatch(using_mock, systems, table, system_id, basis_set, experiment_type,
                      configuration, rnd),
             system_id, basis_set, experiment_type, rnd)

(***************************************************************************)
(* manager.py: QuantumModuleManager.estimate_resources                     *)
(***************************************************************************)
\* the try block of the mock path; an outcome with status "none" stands for
\* leaving the block without returning (no catalog entry matched)
CatalogEstimate(systems, system_id, configuration) ==
    LET found == FindSystem(systems, system_id)
    IN  IF found = <<>>
        THEN [status |-> "none", value |-> NoDict, exc |-> "", msg |-> <<>>, log |-> <<>>]
        ELSE MockEstimateResources(found[1],
                                   Get(configuration, "basis_set", Str(STO3G)),
                                   Get(configuration, "experiment_type", Str(GROUND_STATE)))

\* "Adjust based on system": qubits, depth (in tenths) and band after the step
SystemAdjust(est, system_id) ==
    IF lower(system_id) \in {<<"h","2","o">>, <<"l","i","h">>}
    THEN [qubits |-> est.qubits + 6, depth |-> est.depth + 300,
          runtime |-> <<"10-30 seconds">>]
    ELSE IF lower(system_id) \in {<<"h","2">>}
    THEN [est EXCEPT !.qubits = @ + 2, !.depth = @ + 100]
    ELSE IF lower(system_id) \in {<<"h">>, <<"h","e">>, <<"l","i">>}
    THEN [est EXCEPT !.qubits = @ + 1]
    ELSE est

\* "Adjust based on algorithm"
AlgorithmAdjust(est, algorithm) ==
    IF algorithm = VQE THEN [est EXCEPT !.depth = (@ * 15) \div 10]
    ELSE IF algorithm = QAOA THEN [est EXCEPT !.depth = @ * 2]
    ELSE IF algorithm = QPE
    THEN [qubits |-> est.qubits * 2, depth |-> est.depth * 3,
          runtime |-> <<"30-60 seconds">>]
    ELSE est

\* "Adjust based on ansatz"
AnsatzAdjust(est, ansatz) ==
    IF ansatz = UCCSD THEN [est EXCEPT !.qubits = @ + 2, !.depth = @ * 2]
    ELSE IF ansatz = HWE THEN [est EXCEPT !.depth = @ + 100]
    ELSE est

\* GenericEstimate applying the ansatz adjustment before the algorithm adjustment
GenericEstimate_AnsatzFirst(system_id, configuration) ==
    LET base == [qubits |-> 2, depth |-> 100, runtime |-> <<"2-5 seconds">>]
        algorithm == Get(configuration, "algorithm", Str(<<>>))
        ansatz == Get(configuration, "ansatz", Str(<<>>))
        est == AlgorithmAdjust(AnsatzAdjust(SystemAdjust(base, system_id),
                                            upper(ansatz.chars)),
                               upper(algorithm.chars))
    IN  IF algorithm.type # "str" \/ ansatz.type # "str"
        THEN Raise("AttributeError", <<"object has no attribute 'upper'">>, <<>>)
        ELSE Return([qubits |-> est.qubits, depth |-> est.depth \div 10,
                     runtime |-> est.runtime], <<>>)

\* GenericEstimate reading state left by an earlier call: once an estimate has
\* been kept the depth is reported one higher
GenericEstimate_Warm(system_id, configuration) ==
    LET base == [qubits |-> 2, depth |-> 100, runtime |-> <<"2-5 seconds">>]
        algorithm == Get(configuration, "algorithm", Str(<<>>))
        ansatz == Get(configuration, "ansatz", Str(<<>>))
        est == AnsatzAdjust(AlgorithmAdjust(SystemAdjust(base, system_id),
                                            upper(algorithm.chars)),
                            upper(ansatz.chars))
    IN  IF algorithm.type # "str" \/ ansatz.type # "str"
        THEN Raise("AttributeError", <<"object has no attribute 'upper'">>, <<>>)
        ELSE Return([qubits |-> est.qubits,
                     depth |-> est.depth \div 10 + (IF memo.kept THEN 1 ELSE 0),
                     runtime |-> est.runtime], <<>>)

\* the generic estimate, from "qubits = 2" to the return
GenericEstimate(system_id, configuration) ==
    LET base == [qubits |-> 2, depth |-> 100, runtime |-> <<"2-5 seconds">>]
        algorithm == Get(configuration, "algorithm", Str(<<>>))
        ansatz == Get(configuration, "ansatz", Str(<<>>))
        est == AnsatzAdjust(AlgorithmAdjust(SystemAdjust(base, system_id),
                                            upper(algorithm.chars)),
                            upper(ansatz.chars))
    IN  IF algorithm.type # "str" \/ ansatz.type # "str"
        THEN Raise("AttributeError", <<"object has no attribute 'upper'">>, <<>>)
        ELSE Return([qubits |-> est.qubits, depth |-> est.depth \div 10,
                     runtime |-> est.runtime], <<>>)

estimate_resources(using_mock, systems, system_id, configuration) ==
    IF using_mock /\ CatalogEstimate(systems, system_id, configuration).status = "return"
    THEN CatalogEstimate(systems, system_id, configuration)
    ELSE GenericEstimate(system_id, configuration)

(***************************************************************************)
(* The requests a caller can make.                                         *)
(***************************************************************************)
SystemIds ==
    { <<"h","2","o">>, <<"H","2","O">>, <<"c","h","4">>, <<"n","h","3">>, <<"c","o","2">>,
      <<"H","2">>, <<"L","i","H">>,
      <<"H","e">>, <<"x","y","z">>, ANTI_H, ANTI_PS, <<"a","n","t","i","_","X">>,
      <<"A","n","t","i","_","H">>, <<"a","n","t","i","_","h">> }

BasisSets == {STO3G, CCPVTZ, <<"bogus">>}

ExperimentTypes == {GROUND, EXCITED, GEOMETRY, VIBRATIONAL, DIPOLE, GROUND_STATE, <<"bogus">>}

RunConfigs ==
    { Config(alg, ans, Str(JW), Absent, Absent, Absent) :
        alg \in {Absent, Str(VQE), Str(EXACT)}, ans \in {Absent, Str(TWOLOCAL)} }
    \cup { Config(Str(VQE), Str(TWOLOCAL), map, Absent, Absent, Absent) :
             map \in {Absent, Str(<<"bogus">>), ListVal} }
    \cup { Config(Absent, Absent, Absent, Absent, Absent, Absent),
           Config(Str(QPE), Str(TWOLOCAL), Str(JW), Absent, Absent, Absent),
           WithKey(Config(Str(VQE), Str(TWOLOCAL), Str(JW), Absent, Absent, Absent),
                   "optimizer", Str(<<"bogus">>)),
           WithKey(Config(Str(VQE), Str(TWOLOCAL), Str(JW), Absent, Absent, Absent),
                   "molecule_data", NoneVal),
           Config(Str(VQE), Str(TWOLOCAL), Str(JW), Str(CCPVTZ), Absent, Absent),
           Config(Str(VQE), Str(TWOLOCAL), Str(JW), Absent, Str(GROUND_STATE), Absent),
           Config(Str(VQE), Str(TWOLOCAL), Str(JW), Absent, Absent, IntVal(2)),
           Config(Str(VQE), Str(TWOLOCAL), Str(JW), Absent, Absent, Str(<<"2">>)) }

EstimateConfigs ==
    { Config(alg, ans, Absent, bs, et, Absent) :
        alg \in {Absent, Str(VQE), Str(<<"v","q","e">>), Str(QAOA), Str(QPE), Str(EXACT),
                 IntVal(5), NoneVal},
        ans \in {Absent, Str(UCCSD), Str(<<"u","c","c","s","d">>), Str(HWE), Str(TWOLOCAL),
                 NoneVal},
        bs \in {Absent, Str(CCPVTZ), IntVal(5), ListVal},
        et \in {Absent, Str(EXCITED_STATE), Str(VIBRATIONAL_ANALYSIS), Str(DIPOLE_MOMENT),
                Str(EXCITED)} }
    \cup { Config(Absent, Absent, Absent, Absent, Str(et), Absent) : et \in ExperimentTypes }
    \cup { Config(Absent, Absent, Absent, Absent, Str(GEOMETRY_OPTIMIZATION), Absent) }

NoArg == <<"n/a">>

\* no estimate kept
NoMemo == [kept |-> FALSE]

NoCall == [op |-> "none", system_id |-> NoArg, basis_set |-> NoArg,
           experiment_type |-> NoArg,
           configuration |-> Config(Absent, Absent, Absent, Absent, Absent, Absent),
           caller_configuration |-> Config(Absent, Absent, Absent, Absent, Absent, Absent)]

\* CatalogAfter with the optimized coordinates written into the atom records
\* of the catalog entry
CatalogAfter_InPlace(systems, out) ==
    IF out.status = "return" /\ "optimized_geometry" \in DOMAIN out.value
    THEN [k \in DOMAIN systems |->
            IF lower(systems[k].id) = lower(out.value.system_id)
            THEN [systems[k] EXCEPT !.atoms = out.value.optimized_geometry.atoms]
            ELSE systems[k]]
    ELSE systems

\* SYSTEMS after a call with outcome out: the engines read the catalog entry
\* and run_geometry_optimization appends new atom dicts to optimized_atoms
CatalogAfter(systems, out) == systems

\* the caller's configuration mapping after a call: the manager and the
\* engines index it, .get() from it and expand it with **configuration
ConfigurationAfter(configuration, out) == configuration

(***************************************************************************)
(* The state machine: a caller invokes one operation of the manager at a   *)
(* time and takes its result.                                              *)
(***************************************************************************)
Init ==
    /\ USING_MOCK \in BOOLEAN
    /\ SYSTEMS = InitialSystems
    /\ reference_energies = InitialReferenceEnergies
    /\ pc = "idle"
    /\ call = NoCall
    /\ result = NoDict
    /\ raised = ""
    /\ log = <<>>
    /\ memo = NoMemo
    /\ requests = <<>>
    /\ results = <<>>

RunExperiment ==
    /\ pc = "idle"
    /\ \E system_id \in SystemIds, basis_set \in BasisSets,
          experiment_type \in ExperimentTypes, configuration \in RunConfigs, rnd \in Draws(USING_MOCK) :
          /\ rnd.t0 <= rnd.t1
          /\ \E out \in {run_experiment(USING_MOCK, SYSTEMS, reference_energies, system_id,
                                        basis_set, experiment_type, configuration, rnd)} :
                 /\ call' = [op |-> "run_experiment", system_id |-> system_id,
                             basis_set |-> basis_set, experiment_type |-> experiment_type,
                             configuration |-> configuration,
                             caller_configuration |-> ConfigurationAfter(configuration, out)]
                 /\ result' = out.value
                 /\ raised' = out.exc
                 /\ log' = out.log
                 /\ SYSTEMS' = CatalogAfter(SYSTEMS, out)
    /\ pc' = "returned"
    /\ UNCHANGED <<USING_MOCK, reference_energies, memo, requests, results>>

EstimateResources ==
    /\ pc = "idle"
    /\ \E system_id \in SystemIds, configuration \in EstimateConfigs :
          \E out \in {estimate_resources(USING_MOCK, SYSTEMS, system_id, configuration)} :
              /\ call' = [op |-> "estimate_resources", system_id |-> system_id,
                          basis_set |-> NoArg, experiment_type |-> NoArg,
                          configuration |-> configuration,
                          caller_configuration |-> ConfigurationAfter(configuration, out)]
              /\ result' = out.value
              /\ raised' = out.exc
              /\ log' = out.log
    /\ pc' = "returned"
    /\ UNCHANGED <<USING_MOCK, SYSTEMS, reference_energies, memo, requests, results>>

\* the caller has taken the result (or the exception) of its call
TakeResult ==
    /\ pc = "returned"
    /\ pc' = "idle"
    /\ call' = NoCall
    /\ result' = NoDict
    /\ raised' = ""
    /\ log' = <<>>
    /\ UNCHANGED <<USING_MOCK, SYSTEMS, reference_energies, memo, requests, results>>

Next == RunExperiment \/ EstimateResources \/ TakeResult

Spec == Init /\ [][Next]_vars

(***************************************************************************)
(* A caller that keeps an estimate and asks again later.                   *)
(***************************************************************************)
\* the requests whose generic estimate the caller keeps
ProbeIds == { <<"x","y","z">>, <<"h","2","o">> }

ProbeConfigs ==
    { Config(Str(QPE), Str(UCCSD), Absent, Absent, Absent, Absent),
      Config(Str(VQE), Absent, Absent, ListVal, Absent, Absent) }

\* the caller keeps the generic estimate it has just been given
KeepEstimate ==
    /\ pc = "returned"
    /\ call.op = "estimate_resources"
    /\ raised = ""
    /\ "qubits" \in DOMAIN result
    /\ memo = NoMemo
    /\ call.system_id \in ProbeIds
    /\ call.configuration \in ProbeConfigs
    /\ memo' = [kept |-> TRUE, using_mock |-> USING_MOCK, system_id |-> call.system_id,
                configuration |-> call.configuration, result |-> result]
    /\ UNCHANGED <<USING_MOCK, SYSTEMS, reference_energies, pc, call, result, raised, log,
                   requests, results>>

EstimateNext == RunExperiment \/ EstimateResources \/ KeepEstimate \/ TakeResult

EstimateSpec == Init /\ [][EstimateNext]_vars

(***************************************************************************)
(* main.py: the run endpoint.  The handler is an async def without an      *)
(* await: it runs on the event loop's thread from its first statement to   *)
(* its response, the call of QuantumModuleManager.run_experiment and the   *)
(* time.sleep of the mock engine included.  pc = "returned" is the thread  *)
(* being inside a handler that has made its manager call.                  *)
(***************************************************************************)
\* the rows of the experiments table, by id
StoredExperiments ==
    << [system_id |-> <<"h","2","o">>, basis_set |-> STO3G, experiment_type |-> GROUND,
        configuration |-> Config(Str(VQE), Str(TWOLOCAL), Str(JW), Absent, Absent, Absent)],
       [system_id |-> <<"x","y","z">>, basis_set |-> STO3G, experiment_type |-> GROUND,
        configuration |-> Config(Str(VQE), Str(TWOLOCAL), Str(JW), Absent, Absent, Absent)] >>

\* the experiment ids a run is requested for; the last one names no row
RequestedIds == 1..(Len(StoredExperiments) + 1)

\* the computations of the mock engine; each of them starts with
\* self._simulate_calculation_time(...), which ends in time.sleep(sim_time)
SleepingComputations ==
    {"run_ground_state_calculation", "run_excited_state_calculation",
     "run_geometry_optimization", "run_vibrational_analysis", "run_dipole_moment"}

Sleeps(computations) ==
    \E i \in DOMAIN computations : computations[i] \in SleepingComputations

\* StatusOf answering 200 whatever the result holds
StatusOf_AlwaysOk(r) == 200

\* if "error" in result: raise HTTPException(status_code=500, ...)
StatusOf(r) == IF "error" \in DOMAIN r THEN 500 ELSE 200

\* db_result = ExperimentResult(experiment_id=..., energy=result["energy"], ...)
\* with the id the table gives it; None is <<>>
ResultRow(id, experiment_id, r) ==
    [id |-> id,
     experiment_id |-> experiment_id,
     energy |-> r.energy,
     reference_energy |-> IF "reference_energy" \in DOMAIN r
                          THEN <<r.reference_energy>> ELSE <<>>,
     iterations |-> r.iterations,
     runtime |-> r.runtime,
     convergence |-> IF "convergence" \in DOMAIN r THEN <<r.convergence>> ELSE <<>>,
     data |-> r.data]

\* a POST /experiments/{experiment_id}/run arrives
ReceiveRun ==
    /\ Len(requests) < MaxRequests
    /\ \E experiment_id \in RequestedIds :
          requests' = Append(requests, [experiment_id |-> experiment_id, phase |-> "waiting",
                                        status |-> 0, result |-> NoDict, row |-> 0])
    /\ UNCHANGED <<USING_MOCK, SYSTEMS, reference_energies, pc, call, result, raised, log,
                   memo, results>>

\* the handler of request r finds no experiment row: 404
NotFound(r) ==
    /\ pc = "idle"
    /\ requests[r].phase = "waiting"
    /\ requests[r].experiment_id \notin DOMAIN StoredExperiments
    /\ requests' = [requests EXCEPT ![r].phase = "done", ![r].status = 404]
    /\ UNCHANGED <<USING_MOCK, SYSTEMS, reference_energies, pc, call, result, raised, log,
                   memo, results>>

RunNotFound == \E r \in DOMAIN requests : NotFound(r)

\* the handler of request r finds its experiment and calls run_experiment; in
\* the mock engine the call is inside time.sleep before it computes
Begin(r) ==
    /\ pc = "idle"
    /\ requests[r].phase = "waiting"
    /\ requests[r].experiment_id \in DOMAIN StoredExperiments
    /\ \E rnd \in Draws(USING_MOCK) :
          /\ rnd.t0 <= rnd.t1
          /\ \E experiment \in {StoredExperiments[requests[r].experiment_id]} :
             \E out \in {run_experiment(USING_MOCK, SYSTEMS, reference_energies,
                                        experiment.system_id, experiment.basis_set,
                                        experiment.experiment_type,
                                        experiment.configuration, rnd)} :
                 /\ call' = [op |-> "run_experiment", system_id |-> experiment.system_id,
                             basis_set |-> experiment.basis_set,
                             experiment_type |-> experiment.experiment_type,
                             configuration |-> experiment.configuration,
                             caller_configuration |->
                                 ConfigurationAfter(experiment.configuration, out)]
                 /\ SYSTEMS' = CatalogAfter(SYSTEMS, out)
                 /\ result' = out.value
                 /\ raised' = out.exc
                 /\ log' = out.log
                 /\ requests' = [requests EXCEPT
                                    ![r].phase = IF Sleeps(out.log) THEN "delay"
                                                 ELSE "computed",
                                    ![r].result = out.value]
    /\ pc' = "returned"
    /\ UNCHANGED <<USING_MOCK, reference_energies, memo, results>>

BeginRun == \E r \in DOMAIN requests : Begin(r)

\* the handler of request r has its result: 500 for an error, otherwise one
\* ExperimentResult row is added and returned
Respond ==
    /\ pc = "returned"
    /\ \E r \in DOMAIN requests :
          /\ requests[r].phase \in {"delay", "computed"}
          /\ IF "error" \in DOMAIN requests[r].result
             THEN /\ requests' = [requests EXCEPT ![r].phase = "done",
                                                  ![r].status = StatusOf(requests[r].result)]
                  /\ results' = results
             ELSE /\ requests' = [requests EXCEPT ![r].phase = "done",
                                                  ![r].status = StatusOf(requests[r].result),
                                                  ![r].row = Len(results) + 1]
                  /\ results' = Append(results,
                                       ResultRow(Len(results) + 1, requests[r].experiment_id,
                                                 requests[r].result))
    /\ pc' = "idle"
    /\ call' = NoCall
    /\ result' = NoDict
    /\ raised' = ""
    /\ log' = <<>>
    /\ UNCHANGED <<USING_MOCK, SYSTEMS, reference_energies, memo>>

HostNext == ReceiveRun \/ RunNotFound \/ BeginRun \/ Respond

HostSpec == Init /\ [][HostNext]_vars

(***************************************************************************)
(* main.py: the estimate-resources endpoint.                               *)
(***************************************************************************)
\* the fields ResourceEstimate requires
ResponseFields == {"qubits", "depth", "runtime"}

\* return ResourceEstimate(**estimates): an exception of the manager or of the
\* schema (a required field is missing) ends the request with status 500
EstimateResponse(estimates, exc) ==
    IF exc # "" \/ ~(ResponseFields \subseteq DOMAIN estimates)
    THEN [route |-> "estimate-resources", status |-> 500, body |-> NoDict]
    ELSE [route |-> "estimate-resources", status |-> 200,
          body |-> [qubits |-> estimates.qubits, depth |-> estimates.depth,
                    runtime |-> estimates.runtime]]

\* a POST /estimate-resources is handled
EstimateRequest ==
    /\ pc = "idle"
    /\ requests = <<>>
    /\ \E system_id \in SystemIds, configuration \in EstimateConfigs :
          \E out \in {estimate_resources(USING_MOCK, SYSTEMS, system_id, configuration)} :
              /\ call' = [op |-> "estimate_resources", system_id |-> system_id,
                          basis_set |-> NoArg, experiment_type |-> NoArg,
                          configuration |-> configuration,
                          caller_configuration |-> ConfigurationAfter(configuration, out)]
              /\ result' = out.value
              /\ raised' = out.exc
              /\ log' = out.log
              /\ requests' = <<EstimateResponse(out.value, out.exc)>>
    /\ pc' = "returned"
    /\ UNCHANGED <<USING_MOCK, SYSTEMS, reference_energies, memo, results>>

\* the response has been sent
CloseEstimate ==
    /\ pc = "returned"
    /\ requests # <<>>
    /\ pc' = "idle"
    /\ call' = NoCall
    /\ result' = NoDict
    /\ raised' = ""
    /\ log' = <<>>
    /\ requests' = <<>>
    /\ UNCHANGED <<USING_MOCK, SYSTEMS, reference_energies, memo, results>>

EndpointNext == EstimateRequest \/ CloseEstimate

EndpointSpec == Init /\ [][EndpointNext]_vars

(***************************************************************************)
(* Vocabulary of the properties.                                           *)
(***************************************************************************)
RunReturned == pc = "returned" /\ call.op = "run_experiment"

EstimateReturned == pc = "returned" /\ call.op = "estimate_resources"

IsFailure(r) == "error" \in DOMAIN r

IsSuccess(r) == "none" \notin DOMAIN r /\ "error" \notin DOMAIN r

\* the ids of SystemIds that carry the antimatter prefix "anti_"
AntimatterIds == {ANTI_H, ANTI_PS, <<"a","n","t","i","_","X">>, <<"a","n","t","i","_","h">>}

\* the ids of SystemIds that name a catalog molecule up to letter case
WaterIds == { <<"h","2","o">>, <<"H","2","O">> }
MethaneIds == { <<"c","h","4">> }
CarbonDioxideIds == { <<"c","o","2">> }
AmmoniaIds == { <<"n","h","3">> }
CatalogIds == WaterIds \cup MethaneIds \cup CarbonDioxideIds \cup AmmoniaIds

Kinds == {GROUND_STATE, EXCITED_STATE, GEOMETRY_OPTIMIZATION, VIBRATIONAL_ANALYSIS,
          DIPOLE_MOMENT}

\* the configuration binds to the keyword parameters of the engine call
Binds(configuration) ==
    \A key \in {"basis_set", "experiment_type", "molecule_data"} \cap DOMAIN configuration :
        ~Has(configuration, key)

(***************************************************************************)
(* Dispatch Manager: run_experiment                                        *)
(***************************************************************************)
\* C1: run_experiment always returns a mapping and never lets an exception
\* escape; a Failure carries the three identifying parameters as supplied and
\* a runtime >= 0; and the raising cases of antimatter routing, catalog
\* resolution, engine invocation and real-backend dispatch all end in a
\* Failure.
C1_RunNeverRaises ==
    RunReturned =>
        /\ raised = ""
        /\ "none" \notin DOMAIN result
        /\ IsFailure(result) =>
              /\ result.system_id = call.system_id
              /\ result.basis_set = call.basis_set
              /\ result.experiment_type = call.experiment_type
              /\ result.runtime >= 0
        /\ call.system_id \in AntimatterIds \ {ANTI_H, ANTI_PS} => IsFailure(result)
        /\ (USING_MOCK /\ call.system_id \notin AntimatterIds \cup CatalogIds)
              => IsFailure(result)
        /\ (USING_MOCK /\ call.system_id \in CatalogIds /\ ~Binds(call.configuration))
              => IsFailure(result)
        /\ (USING_MOCK /\ call.system_id \in CatalogIds
                /\ call.experiment_type = EXCITED
                /\ call.configuration.num_states.type = "str")
              => IsFailure(result)
        /\ (~USING_MOCK /\ call.system_id \notin AntimatterIds
                /\ call.experiment_type \notin {GROUND, EXCITED})
              => IsFailure(result)

\* an exception raised while the engine call is bound has become a Failure
C1_Witness ==
    /\ RunReturned
    /\ USING_MOCK
    /\ call.system_id \in CatalogIds
    /\ ~Binds(call.configuration)
    /\ IsFailure(result)
    /\ raised = ""

\* C2: every result of run_experiment is a Failure (error, and none of energy,
\* iterations, data) or a Success (no error, and energy, iterations, runtime
\* and data); data is present in every Success of every route.
C2_ResultShape ==
    RunReturned =>
        \/ /\ IsFailure(result)
           /\ DOMAIN result \cap {"energy", "iterations", "data"} = {}
        \/ /\ ~IsFailure(result)
           /\ {"energy", "iterations", "runtime", "data"} \subseteq DOMAIN result

\* a Success of the mock engine, whose own result has no data key
C2_Witness ==
    /\ RunReturned
    /\ USING_MOCK
    /\ IsSuccess(result)
    /\ "vibrations" \in DOMAIN result
    /\ "data" \in DOMAIN result

\* C3: in mock mode an id without the antimatter prefix is resolved against the
\* catalog ignoring letter case (h2o and H2O both select water, whose sto-3g
\* reference is -74.963); an id that matches no entry gives a Failure whose
\* message contains the id as supplied, and nothing is computed.
C3_CatalogResolution ==
    (RunReturned /\ USING_MOCK /\ call.system_id \notin AntimatterIds) =>
        /\ call.system_id \notin CatalogIds =>
              /\ IsFailure(result)
              /\ Contains(result.error, call.system_id)
              /\ log = <<>>
        /\ call.system_id \in CatalogIds =>
              /\ IsFailure(result) =>
                    result.error # <<"Unknown system ID: ">> \o call.system_id
              /\ (Binds(call.configuration) /\ call.experiment_type = GROUND)
                    => IsSuccess(result)
        /\ (call.system_id \in WaterIds /\ IsSuccess(result) /\ call.basis_set = STO3G)
              => result.reference_energy = -7496300
        /\ (call.system_id \in MethaneIds /\ IsSuccess(result) /\ call.basis_set = STO3G)
              => result.reference_energy = -3972600

\* an unknown id in mock mode
C3_Witness ==
    /\ RunReturned
    /\ USING_MOCK
    /\ call.system_id = <<"x","y","z">>
    /\ IsFailure(result)
    /\ result.error = <<"Unknown system ID: ", "x", "y", "z">>

\* C4: an id with the case-sensitive prefix anti_ is routed to the antimatter
\* simulations in both modes and for every basis set and experiment type:
\* anti_H to antihydrogen, anti_Ps to positronium (system_type
\* para-positronium), any other such id to a Failure naming it; neither the
\* mock engine nor the real backend runs.  An id without the prefix never
\* reaches the antimatter simulations.
C4_AntimatterRouting ==
    RunReturned =>
        /\ call.system_id = ANTI_H =>
              /\ IsSuccess(result)
              /\ log = <<"simulate_antihydrogen">>
              /\ result.data.system_type = <<"antihydrogen">>
        /\ call.system_id = ANTI_PS =>
              /\ IsSuccess(result)
              /\ log = <<"simulate_positronium">>
              /\ result.data.system_type = <<"para-positronium">>
        /\ call.system_id \in AntimatterIds \ {ANTI_H, ANTI_PS} =>
              /\ IsFailure(result)
              /\ result.error = <<"Unsupported antimatter system: ">> \o call.system_id
              /\ log = <<>>
        /\ call.system_id \notin AntimatterIds =>
              \A k \in DOMAIN log :
                  log[k] \notin {"simulate_antihydrogen", "simulate_positronium"}

\* positronium in mock mode, for an experiment type no engine knows
C4_Witness ==
    /\ RunReturned
    /\ USING_MOCK
    /\ call.system_id = ANTI_PS
    /\ call.experiment_type = <<"bogus">>
    /\ call.basis_set = <<"bogus">>
    /\ IsSuccess(result)
    /\ result.data.system_type = <<"para-positronium">>

\* C5: every Success carries system_id, basis_set and experiment_type exactly
\* as the caller supplied them.
C5_SuccessStamped ==
    (RunReturned /\ IsSuccess(result)) =>
        /\ result.system_id = call.system_id
        /\ result.basis_set = call.basis_set
        /\ result.experiment_type = call.experiment_type

\* a mock Success for an id in upper case and a public experiment type
C5_Witness ==
    /\ RunReturned
    /\ USING_MOCK
    /\ call.system_id = <<"H","2","O">>
    /\ call.experiment_type = DIPOLE
    /\ IsSuccess(result)
    /\ result.system_id = <<"H","2","O">>
    /\ result.experiment_type = DIPOLE

\* the computations a kind performs, in the order they are entered
KindComputations(kind) ==
    CASE kind = GROUND_STATE -> <<"run_ground_state_calculation">>
      [] kind = EXCITED_STATE ->
            <<"run_excited_state_calculation", "run_ground_state_calculation">>
      [] kind = GEOMETRY_OPTIMIZATION -> <<"run_geometry_optimization">>
      [] kind = VIBRATIONAL_ANALYSIS ->
            <<"run_vibrational_analysis", "run_geometry_optimization">>
      [] kind = DIPOLE_MOMENT -> <<"run_dipole_moment", "run_ground_state_calculation">>
      [] OTHER -> <<>>

\* the keys that tell the results of the kinds apart; the dipole result has
\* dipole_moment and none of these
KindMarkers == {"orbitals", "excited_states", "optimization_steps", "vibrations"}

\* the key under which the result of the kind carries its payload
KindPayload(kind) ==
    CASE kind = GROUND_STATE -> "orbitals"
      [] kind = EXCITED_STATE -> "excited_states"
      [] kind = GEOMETRY_OPTIMIZATION -> "optimization_steps"
      [] kind = VIBRATIONAL_ANALYSIS -> "vibrations"
      [] OTHER -> "dipole_moment"

\* the engine kind of a public experiment type, as the claim lists them
PublicKind(experiment_type) ==
    CASE experiment_type = <<"ground">> -> <<"ground_state">>
      [] experiment_type = <<"excited">> -> <<"excited_state">>
      [] experiment_type = <<"geometry">> -> <<"geometry_optimization">>
      [] experiment_type = <<"vibrational">> -> <<"vibrational_analysis">>
      [] experiment_type = <<"dipole">> -> <<"dipole_moment">>
      [] OTHER -> experiment_type

\* C6: in mock mode, for a catalog molecule, the experiment type is translated
\* (ground, excited, geometry, vibrational, dipole to ground_state,
\* excited_state, geometry_optimization, vibrational_analysis, dipole_moment)
\* and exactly that kind is run: the computations performed are those of the
\* translated kind whenever the configuration binds to the engine call, and
\* never those of another kind; a type the engine does not know as a kind gives
\* a Failure (unknown experiment type) and nothing is computed.
C6_MockKindDispatch ==
    (RunReturned /\ USING_MOCK /\ call.system_id \in CatalogIds) =>
        LET kind == PublicKind(call.experiment_type)
        IN  /\ kind \in Kinds =>
                  /\ log \in {<<>>, KindComputations(kind)}
                  /\ Binds(call.configuration) => log = KindComputations(kind)
                  /\ IsSuccess(result) =>
                        /\ log = KindComputations(kind)
                        /\ KindPayload(kind) \in DOMAIN result
                        /\ DOMAIN result \cap KindMarkers = {KindPayload(kind)} \cap KindMarkers
            /\ kind \notin Kinds =>
                  /\ IsFailure(result)
                  /\ log = <<>>
                  /\ Binds(call.configuration) =>
                        result.error = <<"Unknown experiment type: ">> \o call.experiment_type

\* the public type vibrational has run the vibrational analysis
C6_Witness ==
    /\ RunReturned
    /\ USING_MOCK
    /\ call.system_id \in CatalogIds
    /\ call.experiment_type = VIBRATIONAL
    /\ IsSuccess(result)
    /\ log = <<"run_vibrational_analysis", "run_geometry_optimization">>
    /\ result.method = <<"RHF">>

\* C7: in real-backend mode, for an id without the antimatter prefix, ground
\* runs the ground-state calculation, excited runs the same calculation and a
\* Success carries the explanatory note under data.message, and every other
\* experiment type gives a Failure for an unsupported experiment type without
\* the backend being invoked.
C7_RealDispatch ==
    (RunReturned /\ ~USING_MOCK /\ call.system_id \notin AntimatterIds) =>
        /\ call.experiment_type = GROUND =>
              /\ log = <<"calculate_ground_state">>
              /\ (IsSuccess(result) /\ "message" \in DOMAIN result.data)
                    => result.data.message # ExcitedNote
        /\ call.experiment_type = EXCITED =>
              /\ log = <<"calculate_ground_state">>
              /\ IsSuccess(result) =>
                    /\ "message" \in DOMAIN result.data
                    /\ result.data.message =
                          <<"Excited state calculation not yet implemented, showing ground state instead">>
        /\ call.experiment_type \notin {GROUND, EXCITED} =>
              /\ IsFailure(result)
              /\ result.error = <<"Unsupported experiment type: ">> \o call.experiment_type
              /\ log = <<>>

\* a variational excited run of H2 that succeeded and carries the note
C7_Witness ==
    /\ RunReturned
    /\ ~USING_MOCK
    /\ call.system_id = <<"H","2">>
    /\ call.experiment_type = EXCITED
    /\ IsSuccess(result)
    /\ "optimizer_history" \in DOMAIN result.data
    /\ result.data.message = ExcitedNote

(***************************************************************************)
(* Resource Estimator: estimate_resources                                  *)
(***************************************************************************)
ClassicalKeys == {"memory_mb", "disk_mb", "cpu_hours", "estimated_runtime_sec",
                  "estimated_runtime_human", "basis_set_complexity",
                  "experiment_complexity", "molecule_size"}

QuantumKeys == {"qubits", "depth", "runtime"}

\* C8: estimate_resources never fails: for every system id and configuration,
\* in both modes, it returns an estimate and raises no exception.
C8_EstimateNeverFails ==
    EstimateReturned =>
        /\ raised = ""
        /\ \/ QuantumKeys \subseteq DOMAIN result
           \/ ClassicalKeys \subseteq DOMAIN result

\* C9: the generic estimate starts at 2 qubits, depth 10, band "2-5 seconds",
\* then applies the system adjustment (lower-cased id), the algorithm
\* adjustment and the ansatz adjustment (upper-cased identifiers) in this
\* order and truncates; an unknown system with QPE gives 4 qubits, depth 30,
\* band "30-60 seconds"; qubits and depth are at least 1.
C9_GenericHeuristic ==
    (EstimateReturned /\ "qubits" \in DOMAIN result) =>
        LET id == call.system_id
            alg == call.configuration.algorithm.chars
            ans == call.configuration.ansatz.chars
            big == id \in {<<"h","2","o">>, <<"H","2","O">>, <<"L","i","H">>}
            isVQE == alg \in {<<"V","Q","E">>, <<"v","q","e">>}
            isQAOA == alg = <<"Q","A","O","A">>
            isQPE == alg = <<"Q","P","E">>
            isUCCSD == ans \in {<<"U","C","C","S","D">>, <<"u","c","c","s","d">>}
            isHWE == ans = <<"H","W","E">>
            q1 == 2 + (IF big THEN 6 ELSE IF id = <<"H","2">> THEN 2
                       ELSE IF id = <<"H","e">> THEN 1 ELSE 0)
            d1 == 10 + (IF big THEN 30 ELSE IF id = <<"H","2">> THEN 10 ELSE 0)
            q2 == IF isQPE THEN q1 * 2 ELSE q1
            \* twice the depth, so that the factor 1.5 stays integral
            dd2 == d1 * (IF isVQE THEN 3 ELSE IF isQAOA THEN 4 ELSE IF isQPE THEN 6 ELSE 2)
            q3 == IF isUCCSD THEN q2 + 2 ELSE q2
            dd3 == IF isUCCSD THEN dd2 * 2 ELSE IF isHWE THEN dd2 + 20 ELSE dd2
            band == IF isQPE THEN <<"30-60 seconds">>
                    ELSE IF big THEN <<"10-30 seconds">> ELSE <<"2-5 seconds">>
        IN  /\ result.qubits = q3
            /\ result.depth = dd3 \div 2
            /\ result.runtime = band
            /\ result.qubits >= 1
            /\ result.depth >= 1
            /\ (id = <<"x","y","z">> /\ isQPE /\ ans = <<>>) =>
                  /\ result.qubits = 4
                  /\ result.depth = 30
                  /\ result.runtime = <<"30-60 seconds">>

\* water with QPE and UCCSD in real-backend mode: (2 + 6) * 2 + 2 qubits,
\* depth (10 + 30) * 3 * 2
C9_Witness ==
    /\ EstimateReturned
    /\ ~USING_MOCK
    /\ call.system_id = <<"h","2","o">>
    /\ call.configuration.algorithm = Str(QPE)
    /\ call.configuration.ansatz = Str(UCCSD)
    /\ result.qubits = 18
    /\ result.depth = 240
    /\ result.runtime = <<"30-60 seconds">>

\* C10: estimate_resources returns the classical-resource shape when mock mode
\* is active and the id matches a catalog entry ignoring case, the
\* quantum-resource shape otherwise, and the generic quantum-resource estimate
\* when the catalog path raises.
C10_PathSelection ==
    EstimateReturned =>
        IF /\ USING_MOCK
           /\ call.system_id \in CatalogIds
           /\ call.configuration.basis_set.type # "list"
           /\ call.configuration.experiment_type.type # "list"
        THEN ClassicalKeys \subseteq DOMAIN result /\ DOMAIN result \cap QuantumKeys = {}
        ELSE QuantumKeys \subseteq DOMAIN result /\ DOMAIN result \cap ClassicalKeys = {}

Abs(x) == IF x >= 0 THEN x ELSE -x

\* C12: a Success of run_experiment that carries convergence has
\* convergence = |energy - reference_energy| >= 0; positronium, antihydrogen
\* and the real backend always carry it, and under the exact solver energy
\* equals reference_energy and convergence is 0.
C12_Convergence ==
    (RunReturned /\ IsSuccess(result)) =>
        /\ "convergence" \in DOMAIN result =>
              /\ result.convergence = Abs(result.energy - result.reference_energy)
              /\ result.convergence >= 0
        /\ (call.system_id \in {ANTI_H, ANTI_PS} \/ ~USING_MOCK)
              => "convergence" \in DOMAIN result
        /\ (/\ ~USING_MOCK
            /\ call.system_id \notin AntimatterIds
            /\ call.configuration.algorithm # Str(VQE)) =>
                /\ result.energy = result.reference_energy
                /\ result.convergence = 0

\* an antihydrogen Success whose energy carries a nonzero CPT term
C12_Witness ==
    /\ RunReturned
    /\ call.system_id = ANTI_H
    /\ IsSuccess(result)
    /\ result.data.cpt_violation # 0
    /\ result.convergence = Abs(result.energy - result.reference_energy)
    /\ result.convergence > 0

\* C13: for every configuration, basis set and experiment type, a request for
\* anti_Ps succeeds with reference_energy exactly -0.25 and iterations in
\* 50..150, and a request for anti_H succeeds with reference_energy exactly
\* -0.5 and iterations in 30..100.
C13_AntimatterReference ==
    RunReturned =>
        /\ call.system_id = ANTI_PS =>
              /\ IsSuccess(result)
              /\ result.reference_energy = -25000
              /\ result.iterations \in 50..150
        /\ call.system_id = ANTI_H =>
              /\ IsSuccess(result)
              /\ result.reference_energy = -50000
              /\ result.iterations \in 30..100

\* positronium asked with a basis set and an experiment type nobody knows,
\* at the largest iteration count the simulation draws
C13_Witness ==
    /\ RunReturned
    /\ call.system_id = ANTI_PS
    /\ call.basis_set = <<"bogus">>
    /\ call.experiment_type = <<"bogus">>
    /\ result.reference_energy = -25000
    /\ result.iterations = 149

\* the atoms of the catalog molecule an id of SystemIds resolves to
AtomCount(system_id) ==
    IF system_id \in MethaneIds THEN 5 ELSE IF system_id \in AmmoniaIds THEN 4 ELSE 3

\* C14: in mock mode run_experiment("h2o", "sto-3g", "ground", minimal
\* configuration) is a Success with energy within 0.001 of -74.963 and
\* iterations in 10..30, and the orbital list of a ground-state Success is
\* found under the data payload of the result, with 2 entries per atom (6 for
\* water).
C14_WaterGroundExample ==
    (/\ RunReturned
     /\ USING_MOCK
     /\ call.system_id \in CatalogIds
     /\ call.experiment_type = GROUND
     /\ Binds(call.configuration)) =>
        /\ IsSuccess(result)
        /\ (call.system_id = <<"h","2","o">> /\ call.basis_set = STO3G) =>
              /\ Abs(result.energy - (-7496300)) <= 100
              /\ result.iterations \in 10..30
        /\ "orbitals" \in DOMAIN result.data
        /\ Len(result.data.orbitals) = 2 * AtomCount(call.system_id)

\* the reference table's entry for the molecule an id resolves to (<<>> when
\* the table has no column for the basis set)
TableEntry(system_id, basis_set) ==
    LookupReference(InitialReferenceEnergies, lower(system_id), basis_set)

\* C15: in the mock engine a composed computation reports the energy and the
\* reference energy of the base computation it ran first (ground state for
\* excited_state and dipole_moment, geometry optimization for
\* vibrational_analysis): for a (molecule, basis) pair of the reference table
\* reference_energy is the table entry, and |energy - reference_energy| <=
\* 0.001, as for a direct ground_state or geometry_optimization call.
C15_CompositionReusesBase ==
    (/\ RunReturned
     /\ USING_MOCK
     /\ call.system_id \in CatalogIds
     /\ IsSuccess(result)) =>
        LET kind == PublicKind(call.experiment_type)
        IN  /\ log = KindComputations(kind)
            /\ Abs(result.energy - result.reference_energy) <= 100
            /\ TableEntry(call.system_id, call.basis_set) # <<>> =>
                  result.reference_energy = TableEntry(call.system_id, call.basis_set)[1]
            /\ kind = EXCITED_STATE =>
                  /\ result.energy = result.ground_state_data.energy
                  /\ result.reference_energy = result.ground_state_data.reference_energy
            /\ kind = DIPOLE_MOMENT => result.iterations \in 10..30

\* a vibrational analysis of methane in cc-pvtz reporting the table entry of
\* its geometry optimization and an energy 0.001 away from it
C15_Witness ==
    /\ RunReturned
    /\ USING_MOCK
    /\ call.system_id = <<"c","h","4">>
    /\ call.basis_set = CCPVTZ
    /\ call.experiment_type = VIBRATIONAL
    /\ IsSuccess(result)
    /\ log = <<"run_vibrational_analysis", "run_geometry_optimization">>
    /\ result.reference_energy = -4053500
    /\ Abs(result.energy - result.reference_energy) = 100

(***************************************************************************)
(* The run endpoint                                                        *)
(***************************************************************************)
\* C16: the simulated delay of the mock engine is a cooperative suspension
\* point: while one run request is inside its delay, every other run request
\* the host has received and not yet handled can make progress.
C16_DelayYields ==
    \A r \in DOMAIN requests, q \in DOMAIN requests :
        (requests[r].phase = "delay" /\ requests[q].phase = "waiting")
            => ENABLED (Begin(q) \/ NotFound(q))

\* the requests answered with the given status
Answered(status) ==
    {r \in DOMAIN requests : requests[r].phase = "done" /\ requests[r].status = status}

ClassicalReturned ==
    /\ EstimateReturned
    /\ USING_MOCK
    /\ call.system_id \in CatalogIds
    /\ ClassicalKeys \subseteq DOMAIN result

\* the electron count of a catalog molecule: O 8, C 6, H 1
ElectronsOf(system_id) == IF system_id \in CarbonDioxideIds THEN 22 ELSE 10

\* the basis factor b of a configuration
FactorB(configuration) ==
    LET basis_set == Get(configuration, "basis_set", Str(STO3G))
    IN  CASE basis_set = Str(STO3G) -> 1
          [] basis_set = Str(B321G) -> 2
          [] basis_set = Str(B631G) -> 3
          [] basis_set = Str(CCPVDZ) -> 4
          [] basis_set = Str(CCPVTZ) -> 8
          [] OTHER -> 1

\* ten times the experiment factor x of a configuration
FactorX10(configuration) ==
    LET experiment_type == Get(configuration, "experiment_type", Str(GROUND_STATE))
    IN  CASE experiment_type = Str(GROUND_STATE) -> 10
          [] experiment_type = Str(EXCITED_STATE) -> 25
          [] experiment_type = Str(GEOMETRY_OPTIMIZATION) -> 30
          [] experiment_type = Str(VIBRATIONAL_ANALYSIS) -> 50
          [] experiment_type = Str(DIPOLE_MOMENT) -> 12
          [] OTHER -> 10

\* 1000 * e^2 * b * x * 0.01: the unrounded cpu_hours in 0.001
CpuMilli(system_id, configuration) ==
    ElectronsOf(system_id) * ElectronsOf(system_id) * FactorB(configuration)
        * FactorX10(configuration)

\* C18 (as stated): the returned values, which are in 0.01, satisfy
\* memory_mb = e^2 * b * x * 0.1, disk_mb = memory_mb * 5,
\* cpu_hours = e^2 * b * x * 0.01 and estimated_runtime_sec = cpu_hours * 3600 / 8.
C18_ReturnedValuesExact ==
    ClassicalReturned =>
        /\ result.memory_mb = CpuMilli(call.system_id, call.configuration)
        /\ result.disk_mb = result.memory_mb * 5
        /\ result.cpu_hours * 10 = CpuMilli(call.system_id, call.configuration)
        /\ result.estimated_runtime_sec = result.cpu_hours * 450

\* C18 (amended): memory_mb = e^2 * b * x * 0.1 and disk_mb = memory_mb * 5;
\* cpu_hours is e^2 * b * x * 0.01 rounded to two decimals, and
\* estimated_runtime_sec is the unrounded e^2 * b * x * 0.01 times 3600 / 8,
\* so it is within 2.25 s of the returned cpu_hours * 3600 / 8.
C18_ReturnedValuesRounded ==
    ClassicalReturned =>
        /\ result.memory_mb = CpuMilli(call.system_id, call.configuration)
        /\ result.disk_mb = result.memory_mb * 5
        /\ result.cpu_hours = Round2(CpuMilli(call.system_id, call.configuration))
        /\ result.estimated_runtime_sec = CpuMilli(call.system_id, call.configuration) * 45
        /\ Abs(result.estimated_runtime_sec - result.cpu_hours * 450) <= 225

C18_Witness ==
    /\ ClassicalReturned
    /\ call.system_id \in CarbonDioxideIds
    /\ call.configuration.experiment_type = Str(DIPOLE_MOMENT)
    /\ call.configuration.basis_set = Str(CCPVTZ)
    /\ result.cpu_hours * 10 # CpuMilli(call.system_id, call.configuration)
    /\ result.memory_mb = 46464

\* the length in seconds of the unit of a band
UnitSeconds(unit) ==
    CASE unit = "seconds" -> 1
      [] unit = "minutes" -> 60
      [] unit = "hours" -> 3600
      [] unit = "days" -> 86400

\* the band of a runtime given in 0.01 s
BandOf(centi) ==
    IF centi < 6000 THEN "seconds"
    ELSE IF centi < 360000 THEN "minutes"
    ELSE IF centi < 8640000 THEN "hours"
    ELSE "days"

\* runtime_sec, in 0.001 s, of molecules of 1 to 40 electrons under every basis
\* factor and experiment factor: cpu_hours * 3600 / 8 is e^2 * b * x * 4.5 s;
\* 20 electrons give 3600 s and 40 electrons 86400 s
BandSamples ==
    { e * e * b * x10 * 450 : e \in {1, 2, 3, 10, 20, 22, 40},
                              b \in {1, 2, 3, 4, 8},
                              x10 \in {10, 12, 25, 30, 50} }

\* a formatted runtime is the runtime, given in 0.01 s, to one decimal place of
\* the unit of its band
Formats(human, centi) ==
    /\ human.unit = BandOf(centi)
    /\ Abs(human.value * UnitSeconds(human.unit) * 10 - centi) <= UnitSeconds(human.unit) * 5

\* C19: estimated_runtime_human is in seconds below 60 s, in minutes from 60 s
\* to below 3600 s, in hours from 3600 s to below 86400 s and in days from
\* 86400 s, with one decimal place, and its band is the one that contains the
\* estimated_runtime_sec returned in the same estimate.
C19_RuntimeBands ==
    /\ ClassicalReturned =>
          Formats(result.estimated_runtime_human, result.estimated_runtime_sec)
    /\ \A ms \in BandSamples : Formats(_format_time(ms), Round2(ms))

C19_Witness ==
    /\ ClassicalReturned
    /\ result.estimated_runtime_human = [value |-> 10, unit |-> "days"]
    /\ result.estimated_runtime_sec = 8712000

(***************************************************************************)
(* The optimization trajectory                                             *)
(***************************************************************************)
\* C20: every geometry_optimization result has a trajectory of 5 to 15
\* steps, numbered consecutively from 1, and each step's energy is lower than
\* the energy of the step before it, whatever the noise draws are.
C20_TrajectoryDecreases ==
    (RunReturned /\ "optimization_steps" \in DOMAIN result) =>
        LET steps == result.optimization_steps
        IN  /\ Len(steps) \in 5..15
            /\ \A k \in DOMAIN steps : steps[k].step = k
            /\ \A k \in 1..(Len(steps) - 1) : steps[k + 1].energy < steps[k].energy

(***************************************************************************)
(* The vibrational analysis                                                *)
(***************************************************************************)
\* molecule records of one and two atoms, as the catalog would hold them
SmallMolecules ==
    { [id |-> <<"h">>, name |-> <<"Hydrogen atom">>, atoms |-> <<Atom("H", 0, 0, 0)>>,
       charge |-> 0, multiplicity |-> 2],
      [id |-> <<"h","2">>, name |-> <<"Hydrogen">>,
       atoms |-> <<Atom("H", 0, 0, 0), Atom("H", 0, 0, 740)>>,
       charge |-> 0, multiplicity |-> 1] }

RECURSIVE FrequencySum(_, _)
\* the sum of the non-negative frequencies of the modes k.. of a result
FrequencySum(vibrations, k) ==
    IF k > Len(vibrations) THEN 0
    ELSE (IF vibrations[k].frequency >= 0 THEN vibrations[k].frequency ELSE 0)
         + FrequencySum(vibrations, k + 1)

\* a result of run_vibrational_analysis for a molecule of n atoms: 3n - 6
\* modes (none when 3n - 6 <= 0) numbered from 1, one displacement per atom,
\* zero_point_energy (in 1e-5) half the sum of the non-negative frequencies
\* divided by 4.184 and by 1000
VibrationsOf(r, n) ==
    /\ Len(r.vibrations) = (IF 3 * n - 6 > 0 THEN 3 * n - 6 ELSE 0)
    /\ \A k \in DOMAIN r.vibrations :
          /\ r.vibrations[k].mode = k
          /\ Len(r.vibrations[k].displacements) = n
    /\ r.zero_point_energy = (FrequencySum(r.vibrations, 1) * 50000) \div 4184
    /\ r.zero_point_energy >= 0
    /\ Len(r.vibrations) = 0 => r.zero_point_energy = 0

NumStatesOf(configuration) ==
    IF Has(configuration, "num_states") THEN configuration.num_states.n ELSE 3

\* C22: excited_state gives exactly num_states levels (3 when the
\* configuration has no num_states), numbered from 1; level k = i + 1 has
\* excitation_energy within k * 0.1 +/- 0.02 Hartree, so the excitation
\* energies strictly increase, and total_energy is the ground-state energy of
\* the same result plus the excitation_energy of the level.
C22_ExcitedLevels ==
    (RunReturned /\ "excited_states" \in DOMAIN result) =>
        LET levels == result.excited_states
        IN  /\ Len(levels) = NumStatesOf(call.configuration)
            /\ \A k \in DOMAIN levels :
                  /\ levels[k].state = k
                  /\ Abs(levels[k].excitation_energy - k * 10000) <= 2000
                  /\ levels[k].total_energy = result.energy + levels[k].excitation_energy
                  /\ levels[k].total_energy =
                         result.ground_state_data.energy + levels[k].excitation_energy
            /\ \A k \in 1..(Len(levels) - 1) :
                  levels[k].excitation_energy < levels[k + 1].excitation_energy

C22_Witness ==
    /\ RunReturned
    /\ "excited_states" \in DOMAIN result
    /\ call.configuration.num_states = IntVal(2)
    /\ Len(result.excited_states) = 2
    /\ result.excited_states[1].excitation_energy = 12000
    /\ result.excited_states[2].excitation_energy = 18000

(***************************************************************************)
(* The real backend                                                        *)
(***************************************************************************)
\* the ground-state calculation of the real backend was called and got past
\* the molecule lookup and the libraries
GroundStateRan ==
    /\ RunReturned
    /\ ~USING_MOCK
    /\ \E i \in DOMAIN log : log[i] = "calculate_ground_state"

\* the configuration names a mapper, optimizer or algorithm that is not known
UnknownIdentifier(configuration) ==
    \/ Has(configuration, "mapper")
          /\ configuration.mapper \notin {Str(JW), Str(PARITY), Str(BK)}
    \/ Has(configuration, "algorithm")
          /\ configuration.algorithm \notin {Str(VQE), Str(EXACT)}
    \/ "optimizer" \in DOMAIN configuration
          /\ configuration.optimizer \notin
                {Str(<<"COBYLA">>), Str(<<"L_BFGS_B">>), Str(<<"SPSA">>)}

\* C23: in real-backend mode a configuration whose mapper, optimizer or
\* algorithm is not a known identifier makes the ground-state calculation
\* fail: run_experiment returns a Failure, never a Success computed with a
\* substituted default.
C23_UnknownIdentifierFails ==
    (GroundStateRan /\ UnknownIdentifier(call.configuration)) => IsFailure(result)

\* C24: in real-backend mode, when the ground-state calculation fails
\* internally, run_experiment returns a Failure whose error carries the
\* message of the underlying exception and whose error_details carries the
\* captured traceback, for experiment type "ground" and for "excited" alike.
C24_FailureCarriesCause ==
    (GroundStateRan /\ IsFailure(result)) =>
        /\ call.experiment_type \in {GROUND, EXCITED}
        /\ "error_details" \in DOMAIN result
        /\ result.error_details[1] = "Traceback (most recent call last)"
        /\ result.error[1] = "Error in quantum calculation: "
        /\ Len(result.error) > 1

(***************************************************************************)
(* Shared state                                                            *)
(***************************************************************************)
\* the atoms of the catalog entry a system id resolves to
CatalogAtoms(systems, system_id) == FindSystem(systems, system_id)[1].atoms

PayloadOutsideData(r) ==
    /\ "data" \in DOMAIN r
    /\ r.data = EmptyDict
    /\ DOMAIN r \cap PayloadKeys # {}
    /\ ResultRow(1, 1, r).data = EmptyDict

\* C26 (as stated): in mock mode every Success of run_experiment has data
\* equal to the empty mapping, its payload being on top-level keys only, so
\* the run endpoint stores an empty data for every mock run.
C26_MockDataEmpty ==
    (RunReturned /\ USING_MOCK /\ IsSuccess(result)) => PayloadOutsideData(result)

\* C26 (amended): in mock mode every Success of run_experiment for a system id
\* without the prefix "anti_", that is every Success the mock engine computed,
\* has data equal to the empty mapping, its payload being on top-level keys
\* only; the Success of an antimatter id carries the simulator's data.
C26_MockEngineDataEmpty ==
    (RunReturned /\ USING_MOCK /\ IsSuccess(result)) =>
        IF startswith(call.system_id, ANTI_PREFIX)
        THEN "data" \in DOMAIN result /\ result.data # EmptyDict
        ELSE PayloadOutsideData(result)

C26_Witness ==
    /\ RunReturned
    /\ USING_MOCK
    /\ IsSuccess(result)
    /\ call.experiment_type = VIBRATIONAL
    /\ "vibrations" \in DOMAIN result
    /\ result.data = EmptyDict

(***************************************************************************)
(* Configuration keys and the two operations                               *)
(***************************************************************************)
\* the configuration has a key named like a positional parameter of the
\* engine call
Collides(configuration) ==
    \E key \in {"basis_set", "experiment_type", "molecule_data"} :
        key \in DOMAIN configuration /\ Has(configuration, key)

\* C27: in mock mode the configuration is expanded into keyword arguments of
\* the engine call, so a configuration with a key basis_set, experiment_type
\* or molecule_data makes run_experiment a Failure for every catalog system
\* and every experiment type, no computation being run; estimate_resources
\* reads basis_set and experiment_type from the same mapping.
C27_KeywordCollision ==
    /\ (/\ RunReturned
        /\ USING_MOCK
        /\ call.system_id \in CatalogIds
        /\ Collides(call.configuration)) =>
            /\ IsFailure(result)
            /\ log = <<>>
    /\ ClassicalReturned =>
            /\ result.basis_set_complexity = FactorB(call.configuration)
            /\ result.experiment_complexity = FactorX10(call.configuration)

C27_Witness ==
    /\ RunReturned
    /\ USING_MOCK
    /\ call.system_id \in WaterIds
    /\ call.experiment_type = DIPOLE
    /\ call.configuration.basis_set = Str(CCPVTZ)
    /\ IsFailure(result)
    /\ result.error = <<"run_experiment() got multiple values for argument">>

\* AVAILABLE_EXPERIMENT_TYPES: the public ids of the experiment types
PublicIds == {GROUND, EXCITED, GEOMETRY, VIBRATIONAL, DIPOLE}

\* C28: on the mock-catalog estimation path the experiment factor is looked
\* up by the engine's kind names and no vocabulary translation is applied: a
\* public id (ground, excited, geometry, vibrational, dipole) gets
\* experiment_complexity 1.0 and the estimate of ground_state, while
\* excited_state, geometry_optimization, vibrational_analysis and
\* dipole_moment get 2.5, 3.0, 5.0 and 1.2 (experiment_complexity is in tenths).
C28_NoVocabularyTranslation ==
    (ClassicalReturned /\ call.configuration.experiment_type.type = "str") =>
        LET experiment_type == call.configuration.experiment_type.chars
            ground == ElectronsOf(call.system_id) * ElectronsOf(call.system_id)
                          * FactorB(call.configuration) * 10
        IN  /\ experiment_type \in PublicIds =>
                  /\ result.experiment_complexity = 10
                  /\ result.memory_mb = ground
                  /\ result.cpu_hours = Round2(ground)
                  /\ result.estimated_runtime_sec = ground * 45
            /\ experiment_type = GROUND_STATE => result.experiment_complexity = 10
            /\ experiment_type = EXCITED_STATE => result.experiment_complexity = 25
            /\ experiment_type = GEOMETRY_OPTIMIZATION => result.experiment_complexity = 30
            /\ experiment_type = VIBRATIONAL_ANALYSIS => result.experiment_complexity = 50
            /\ experiment_type = DIPOLE_MOMENT => result.experiment_complexity = 12

C28_Witness ==
    /\ ClassicalReturned
    /\ call.system_id \in WaterIds
    /\ call.configuration.experiment_type = Str(VIBRATIONAL)
    /\ result.experiment_complexity = 10
    /\ result.memory_mb = 1000

(***************************************************************************)
(* The estimate-resources endpoint                                         *)
(***************************************************************************)
\* C29: the estimate-resources endpoint builds its response from the
\* quantum-resource shape only: whenever estimate_resources returns the
\* classical-resource shape (a mock-catalog system in mock mode) the fields
\* qubits, depth and runtime are absent and the request ends in an error; for
\* every other system id the endpoint returns qubits, depth and runtime.
C29_EstimateEndpoint ==
    (EstimateReturned /\ requests # <<>>) =>
        IF USING_MOCK /\ call.system_id \in CatalogIds
        THEN /\ ClassicalKeys \subseteq DOMAIN result
             /\ DOMAIN result \cap ResponseFields = {}
             /\ requests[1].status = 500
        ELSE /\ requests[1].status = 200
             /\ DOMAIN requests[1].body = ResponseFields
             /\ requests[1].body.qubits = result.qubits
             /\ requests[1].body.depth = result.depth
             /\ requests[1].body.runtime = result.runtime

(***************************************************************************)
(* System ids in real-backend mode                                         *)
(***************************************************************************)
\* AVAILABLE_SYSTEMS: the ids of the static catalog offered to callers
AvailableSystemIds == { <<"h","2","o">>, <<"c","h","4">>, <<"n","h","3">>, <<"c","o","2">> }

\* the qubits of the generic estimate of a configuration without algorithm
\* and ansatz, the system id being matched whatever its letter case
QubitsOfSystem(system_id) ==
    IF lower(system_id) \in { <<"h","2","o">>, <<"l","i","h">> } THEN 8
    ELSE IF lower(system_id) = <<"h","2">> THEN 4
    ELSE IF lower(system_id) \in { <<"h">>, <<"h","e">>, <<"l","i">> } THEN 3
    ELSE 2

\* C30: in real-backend mode the molecule lookup is case-sensitive over H2,
\* LiH, H2O, H, He, Li, so a "ground" run of every id of the static catalog
\* (h2o, ch4, nh3, co2) is a Failure (unknown system), while estimate_resources
\* in the same mode matches h2o, lih, h2, h, he, li whatever the letter case.
C30_RealLookupCaseSensitive ==
    /\ (/\ RunReturned
        /\ ~USING_MOCK
        /\ call.experiment_type = GROUND
        /\ call.system_id \in AvailableSystemIds) =>
            /\ IsFailure(result)
            /\ result.error = <<"Error in quantum calculation: ", "Unknown system: ">>
                                  \o call.system_id
    /\ (/\ EstimateReturned
        /\ ~USING_MOCK
        /\ ~Has(call.configuration, "algorithm")
        /\ ~Has(call.configuration, "ansatz")) =>
            /\ raised = ""
            /\ result.qubits = QubitsOfSystem(call.system_id)

C30_Witness ==
    /\ RunReturned
    /\ ~USING_MOCK
    /\ call.experiment_type = GROUND
    /\ call.system_id = <<"h","2","o">>
    /\ Binds(call.configuration)
    /\ call.configuration.mapper = Str(JW)
    /\ IsFailure(result)
    /\ "error_details" \in DOMAIN result

====
